---------------------------- MODULE Spec2Model ----------------------------
(***************************************************************************)
(* A model of the blotter client: the AuthProvider (session manager), the  *)
(* EntryDetail view (update / delete of one entry), the Settings view      *)
(* (spreadsheet import and delete-all) and the server-side BlotterList     *)
(* (debounced search and pagination), together with the parts of the       *)
(* hosted store and of the auth SDK that these handlers call.              *)
(*                                                                         *)
(* JavaScript strings that the code inspects are sequences of one-letter   *)
(* strings, so that trimming, lower-casing, substring search and pattern   *)
(* matching are computed and not assumed.                                  *)
(***************************************************************************)
EXTENDS Integers, Sequences, FiniteSets, TLC

VARIABLES
    \* ---- AuthProvider (src/src/contexts/AuthContext.tsx 17-100)
    user,          \* useState<User | null>
    session,       \* useState<Session | null>
    authLoading,   \* useState(true)
    mounted,       \* the effect's `mounted` flag
    initPending,   \* init()'s getSession() has not resolved yet
    sdkSession,    \* the session the auth SDK holds (persisted token)
    pcIn,          \* position of the running signIn call
    inCred,        \* its arguments
    inResult,      \* its return value
    inNavs,        \* targets of the navigations issued by the running / last signIn call
    pcOut,         \* position of the running signOut call
    outErr,        \* the error the server sign-out returned
    outSteps,      \* the steps the running / last signOut call performed
    nAuthOps,      \* number of calls and SDK events so far (bounded)
    \* ---- shared user-visible effects
    navLog,        \* every navigate(...) target, in order
    toasts,        \* every toast shown, in order
    \* ---- the remote table blotter_entries
    table,         \* the set of stored rows
    nextId,        \* the next value of the id sequence
    lastReq,       \* the last store request that was answered
    \* ---- EntryDetail (src/src/contexts/AuthContext.tsx 132-399)
    edMounted,     \* the view is on screen
    paramId,       \* useParams().id
    entry,         \* useState<BlotterEntry | null>
    formData,      \* useState<BlotterEntry>
    edLoading,     \* useState(true)
    isEditing,     \* useState(false)
    edDeleteDialog,\* showDeleteDialog
    entryReqs,     \* store requests of the view that are in flight
    nEntryOps,     \* number of user actions so far (bounded)
    \* ---- Settings (src/src/pages/Settings.tsx)
    stMounted,     \* the view is on screen
    importing,     \* useState(false)
    pcImport,      \* position of the running handleFileUpload
    impFile,       \* the file it was given
    impRows,       \* the rows of its insert request
    stDeleteDialog,     \* showDeleteDialog
    deleteConfirmation, \* useState('')
    pcDeleteAll,   \* position of the running handleDeleteAll
    tzOffset,      \* the browser's time zone, minutes east of UTC
    nImports,      \* number of files selected so far (bounded)
    nSettingsOps,  \* number of other user actions so far (bounded)
    \* ---- BlotterList, server-side (src/src/contexts/AuthContext.tsx 424-794)
    lsMounted,     \* the view is on screen
    lsSession,     \* the session the effects last ran with
    entries,       \* useState<BlotterEntry[]>
    lsLoading,     \* useState(true)
    firstNameSearch,     \* useState('')
    lastNameSearch,      \* useState('')
    debouncedFirstName,  \* useDebounce(firstNameSearch, 500)
    debouncedLastName,   \* useDebounce(lastNameSearch, 500)
    timerFirstName,      \* the debounce timer of the first name is running
    timerLastName,       \* the debounce timer of the last name is running
    currentPage,   \* useState(1)
    totalPages,    \* useState(1)
    totalCount,    \* useState(0)
    fetches,       \* the list queries in flight, in the order they were sent
    lastFetch,     \* the last list query that was answered
    nListOps,      \* number of user actions and failed queries so far (bounded)
    \* ---- BlotterList, client-side (src/unnamed/part_000 25-295 and
    \*      src/src/contexts/AuthContext.tsx 807-998)
    clMounted,     \* the view is on screen
    clVariant,     \* which of the two variants it is
    clSession,     \* the session the fetch effect last ran with
    clEntries,     \* useState<BlotterEntry[]>: entries
    filteredEntries,    \* useState<BlotterEntry[]>
    clLoading,     \* useState(true): loading
    searchText,    \* useState('')
    caseTypeFilter,     \* useState<string>('all')
    clFetches,     \* number of its selects in flight
    nClientOps     \* number of user actions so far (bounded)

authVars == <<user, session, authLoading, mounted, initPending, sdkSession,
              pcIn, inCred, inResult, inNavs, pcOut, outErr, outSteps, nAuthOps>>
uiVars == <<navLog, toasts>>
storeVars == <<table, nextId, lastReq>>
entryVars == <<edMounted, paramId, entry, formData, edLoading, isEditing,
               edDeleteDialog, entryReqs, nEntryOps>>
settingsVars == <<stMounted, importing, pcImport, impFile, impRows, stDeleteDialog,
                  deleteConfirmation, pcDeleteAll, tzOffset, nImports,
                  nSettingsOps>>
listVars == <<lsMounted, lsSession, entries, lsLoading, firstNameSearch,
              lastNameSearch, debouncedFirstName, debouncedLastName,
              timerFirstName, timerLastName, currentPage, totalPages, totalCount,
              fetches, lastFetch, nListOps>>
clientVars == <<clMounted, clVariant, clSession, clEntries, filteredEntries,
                clLoading, searchText, caseTypeFilter, clFetches, nClientOps>>
vars == <<authVars, uiVars, storeVars, entryVars, settingsVars, listVars,
          clientVars>>
nonAuthVars == <<storeVars, entryVars, settingsVars, listVars, clientVars>>
nonEntryVars == <<authVars, settingsVars, listVars, clientVars>>
nonSettingsVars == <<authVars, entryVars, listVars, clientVars>>
nonListVars == <<storeVars, entryVars, settingsVars, clientVars>>
nonClientVars == <<storeVars, entryVars, settingsVars, listVars>>

-----------------------------------------------------------------------------
(* Text: JavaScript string operations on sequences of characters.          *)

UpperChars == <<"A","B","C","D","E","F","G","H","I","J","K","L","M",
                "N","O","P","Q","R","S","T","U","V","W","X","Y","Z">>
LowerChars == <<"a","b","c","d","e","f","g","h","i","j","k","l","m",
                "n","o","p","q","r","s","t","u","v","w","x","y","z">>

\* String.prototype.toLowerCase, one character
LowerOfUpper ==
    [u \in {UpperChars[i] : i \in 1..26} |->
        LowerChars[CHOOSE i \in 1..26 : UpperChars[i] = u]]
LowerChar(c) == IF c \in DOMAIN LowerOfUpper THEN LowerOfUpper[c] ELSE c

\* String.prototype.toLowerCase
ToLowerCase(s) == [i \in 1..Len(s) |-> LowerChar(s[i])]

\* String.prototype.includes
Includes(s, sub) ==
    \E i \in 0..(Len(s) - Len(sub)) :
        \A j \in 1..Len(sub) : s[i + j] = sub[j]

-----------------------------------------------------------------------------
(* Errors returned by the SDK: null, or an object with a message.          *)

NoError == [null |-> TRUE, message |-> <<>>]
Err(msg) == [null |-> FALSE, message |-> msg]

MsgSessionMissing ==
    <<"A","u","t","h"," ","s","e","s","s","i","o","n"," ",
      "m","i","s","s","i","n","g","!">>
MsgNetwork == <<"F","a","i","l","e","d"," ","t","o"," ","f","e","t","c","h">>
MsgInvalidLogin ==
    <<"I","n","v","a","l","i","d"," ","l","o","g","i","n"," ",
      "c","r","e","d","e","n","t","i","a","l","s">>
MsgSessionExpired ==
    <<"S","e","s","s","i","o","n"," ","e","x","p","i","r","e","d">>

\* toast.success(text) / toast.error(text + detail)
Toast(kind, text, detail) == [kind |-> kind, text |-> text, detail |-> detail]


-----------------------------------------------------------------------------
(* AuthProvider: src/src/contexts/AuthContext.tsx 17-100                   *)

MaxAuthOps == 3
MaxToken == 2

Users == {"u1", "u2"}
Emails == {"a@x", "b@x"}
Passwords == {"p1", "p2"}
NullUser == "null"
NullSession == [user |-> NullUser, token |-> 0]
SessionSpace == [user : Users, token : 1..MaxToken]

\* The accounts the backend knows: the credential pairs signInWithPassword accepts.
AccountUser(email) == IF email = "a@x" THEN "u1" ELSE "u2"
ValidCredentials(email, password) ==
    \/ email = "a@x" /\ password = "p1"
    \/ email = "b@x" /\ password = "p2"

\* session?.user ?? null
SessionUser(s) == IF s = NullSession THEN NullUser ELSE s.user

AuthInit ==
    /\ user = NullUser
    /\ session = NullSession
    /\ authLoading = TRUE
    /\ mounted = TRUE
    /\ initPending = TRUE
    /\ sdkSession \in SessionSpace \cup {NullSession}
    /\ pcIn = "idle"
    /\ inCred = <<"", "">>
    /\ inResult = NoError
    /\ inNavs = <<>>
    /\ pcOut = "idle"
    /\ outErr = NoError
    /\ outSteps = <<>>
    /\ nAuthOps = 0

\* The provider as the other views' specifications hold it: untouched.
AuthIdle == AuthInit /\ sdkSession = NullSession

UiInit ==
    /\ navLog = <<>>
    /\ toasts = <<>>

HandlerSessionAlways(s) == s
\* The onAuthStateChange callback (37-41): what it makes of user and session.
HandlerSession(s) == IF mounted THEN s ELSE session
HandlerUser(s) == IF mounted THEN SessionUser(s) ELSE user

\* init (27-33): the initial getSession() resolves.
AuthInitResolve ==
    /\ initPending
    /\ initPending' = FALSE
    /\ IF mounted
       THEN /\ session' = sdkSession
            /\ user' = SessionUser(sdkSession)
            /\ authLoading' = FALSE
       ELSE UNCHANGED <<session, user, authLoading>>
    /\ UNCHANGED <<mounted, sdkSession, pcIn, inCred, inResult, inNavs, pcOut,
                   outErr, outSteps, nAuthOps, uiVars>>
    /\ UNCHANGED nonAuthVars

\* The SDK changes its session by itself (token refresh, sign-in or sign-out in
\* another tab, expiry) and notifies the subscriber (37-41).
AuthStateChange(s) ==
    /\ nAuthOps < MaxAuthOps
    /\ nAuthOps' = nAuthOps + 1
    /\ s # sdkSession
    /\ sdkSession' = s
    /\ session' = HandlerSession(s)
    /\ user' = HandlerUser(s)
    /\ UNCHANGED <<authLoading, mounted, initPending, pcIn, inCred, inResult,
                   inNavs, pcOut, outErr, outSteps, uiVars>>
    /\ UNCHANGED nonAuthVars

\* The effect's cleanup (43-46).
AuthUnmount ==
    /\ mounted
    /\ mounted' = FALSE
    /\ UNCHANGED <<user, session, authLoading, initPending, sdkSession, pcIn,
                   inCred, inResult, inNavs, pcOut, outErr, outSteps, nAuthOps,
                   uiVars>>
    /\ UNCHANGED nonAuthVars

\* signIn (49-53): the call, up to the await.
SignInCall(email, password) ==
    /\ mounted
    /\ pcIn \in {"idle", "returned"}
    /\ nAuthOps < MaxAuthOps
    /\ nAuthOps' = nAuthOps + 1
    /\ pcIn' = "await"
    /\ inCred' = <<email, password>>
    /\ inResult' = NoError
    /\ inNavs' = <<>>
    /\ UNCHANGED <<user, session, authLoading, mounted, initPending, sdkSession,
                   pcOut, outErr, outSteps, uiVars>>
    /\ UNCHANGED nonAuthVars

SignInNavigatesAlways(error) == TRUE
\* What signIn does with the answer of signInWithPassword (55-62).
SignInNavigates(error) == error.null
SignInToast(error) ==
    IF error.null
    THEN Toast("success", "Welcome back!", <<>>)
    ELSE Toast("error", "", error.message)

\* signIn (50-62): signInWithPassword resolves with `error`; on acceptance the
\* SDK stores the new session and notifies the subscriber before it resolves.
SignInResolve(error) ==
    /\ pcIn = "await"
    /\ error.null => ValidCredentials(inCred[1], inCred[2])
    /\ ~error.null =>
          error.message = IF ValidCredentials(inCred[1], inCred[2])
                          THEN MsgNetwork ELSE MsgInvalidLogin
    /\ pcIn' = "returned"
    /\ inResult' = error
    /\ toasts' = Append(toasts, SignInToast(error))
    /\ IF SignInNavigates(error)
       THEN /\ navLog' = Append(navLog, "/")
            /\ inNavs' = Append(inNavs, "/")
       ELSE UNCHANGED <<navLog, inNavs>>
    /\ IF error.null
       THEN \E t \in 1..MaxToken :
              LET s == [user |-> AccountUser(inCred[1]), token |-> t] IN
                /\ sdkSession' = s
                /\ session' = HandlerSession(s)
                /\ user' = HandlerUser(s)
       ELSE UNCHANGED <<sdkSession, session, user>>
    /\ UNCHANGED <<authLoading, mounted, initPending, inCred, pcOut, outErr,
                   outSteps, nAuthOps>>
    /\ UNCHANGED nonAuthVars

\* React drops a state update of an unmounted component.
SetState(new, old) == IF mounted THEN new ELSE old

\* signOut (65-73): the proactive clear, up to the first await.
SignOutClearUser == NullUser
SignOutClearSession == NullSession
SignOutCall ==
    /\ mounted
    /\ pcOut \in {"idle", "done"}
    /\ nAuthOps < MaxAuthOps
    /\ nAuthOps' = nAuthOps + 1
    /\ user' = SignOutClearUser
    /\ session' = SignOutClearSession
    /\ authLoading' = TRUE
    /\ pcOut' = "server"
    /\ outErr' = NoError
    /\ outSteps' = <<"clear", "server">>
    /\ UNCHANGED <<mounted, initPending, sdkSession, pcIn, inCred, inResult,
                   inNavs, uiVars>>
    /\ UNCHANGED nonAuthVars

\* signOut (76-85): the notification chosen from the server's error.
IsSessionMissing(error) ==
    LET msg == ToLowerCase(error.message) IN
      /\ Includes(msg, <<"s","e","s","s","i","o","n">>)
      /\ Includes(msg, <<"m","i","s","s","i","n","g">>)
SignOutToast(error) ==
    IF ~error.null /\ ~IsSessionMissing(error)
    THEN Toast("error", "", error.message)
    ELSE Toast("success", "Logged out successfully", <<>>)

\* signOut (88-91): the finally block.
SignOutTarget == "/login"
SignOutFinally ==
    /\ navLog' = Append(navLog, SignOutTarget)
    /\ authLoading' = SetState(FALSE, authLoading)
    /\ pcOut' = "done"

\* signOut (73): the server sign-out answers. "ok" removes the SDK's session and
\* notifies SIGNED_OUT; an error leaves the SDK's session as it is; a throw goes
\* to the catch (86-88) and the finally block.
SignOutServer(outcome) ==
    /\ pcOut = "server"
    /\ CASE outcome = "ok" ->
              /\ sdkSession' = NullSession
              /\ session' = HandlerSession(NullSession)
              /\ user' = HandlerUser(NullSession)
              /\ outErr' = NoError
              /\ pcOut' = "local"
              /\ outSteps' = Append(outSteps, "local")
              /\ UNCHANGED <<authLoading, uiVars>>
         [] outcome \in {"missing", "other"} ->
              /\ outErr' = Err(IF outcome = "missing" THEN MsgSessionMissing
                               ELSE MsgNetwork)
              /\ pcOut' = "local"
              /\ outSteps' = Append(outSteps, "local")
              /\ UNCHANGED <<sdkSession, session, user, authLoading, uiVars>>
         [] outcome = "throws" ->
              /\ SignOutFinally
              /\ outSteps' = Append(outSteps, "navigate")
              /\ UNCHANGED <<sdkSession, session, user, outErr, toasts>>
    /\ UNCHANGED <<mounted, initPending, pcIn, inCred, inResult, inNavs, nAuthOps>>
    /\ UNCHANGED nonAuthVars

\* signOut (75-91): the local-scope sign-out answers (its result is dropped), then
\* the notification and the finally block run.
SignOutLocal(outcome) ==
    /\ pcOut = "local"
    /\ outSteps' = Append(outSteps, "navigate")
    /\ SignOutFinally
    /\ CASE outcome = "ok" ->
              /\ sdkSession' = NullSession
              /\ session' = HandlerSession(NullSession)
              /\ user' = HandlerUser(NullSession)
              /\ toasts' = Append(toasts, SignOutToast(outErr))
         [] outcome = "error" ->
              /\ toasts' = Append(toasts, SignOutToast(outErr))
              /\ UNCHANGED <<sdkSession, session, user>>
         [] outcome = "throws" ->
              UNCHANGED <<sdkSession, session, user, toasts>>
    /\ UNCHANGED <<mounted, initPending, pcIn, inCred, inResult, inNavs, outErr,
                   nAuthOps>>
    /\ UNCHANGED nonAuthVars

AuthNext ==
    \/ AuthInitResolve
    \/ \E s \in SessionSpace \cup {NullSession} : AuthStateChange(s)
    \/ AuthUnmount
    \/ \E e \in Emails, p \in Passwords : SignInCall(e, p)
    \/ \E error \in {NoError, Err(MsgInvalidLogin), Err(MsgNetwork)} :
          SignInResolve(error)
    \/ SignOutCall
    \/ \E o \in {"ok", "missing", "other", "throws"} : SignOutServer(o)
    \/ \E o \in {"ok", "error", "throws"} : SignOutLocal(o)


-----------------------------------------------------------------------------
(* The table blotter_entries and the store requests made on it.            *)
(* A row is a function from column names to values; a value is a number,   *)
(* a string or null, tagged as typeof would tell them apart.               *)

K_id == <<"i","d">>
K_created_at == <<"c","r","e","a","t","e","d","_","a","t">>
K_blotter_entry == <<"b","l","o","t","t","e","r","_","e","n","t","r","y">>
K_first_name == <<"f","i","r","s","t","_","n","a","m","e">>
K_last_name == <<"l","a","s","t","_","n","a","m","e">>
K_case_type == <<"c","a","s","e","_","t","y","p","e">>
K_date == <<"d","a","t","e">>

\* BlotterEntry (src/trial-tome-main/src/lib/supabase.ts 8-16)
EntryFields == {K_blotter_entry, K_first_name, K_last_name, K_case_type, K_date}
Columns == EntryFields \cup {K_id, K_created_at}

Num(n) == [t |-> "number", n |-> n, s |-> <<>>]
Str(s) == [t |-> "string", n |-> 0, s |-> s]
NullValue == [t |-> "null", n |-> 0, s |-> <<>>]

\* null, for an entry
NoRow == [k \in {} |-> NullValue]

Row(id, created, first, last, case, date, text) ==
    [k \in Columns |->
        CASE k = K_id -> Num(id)
          [] k = K_created_at -> Num(created)
          [] k = K_first_name -> Str(first)
          [] k = K_last_name -> Str(last)
          [] k = K_case_type -> Str(case)
          [] k = K_date -> Str(date)
          [] OTHER -> Str(text)]

\* A store request: what was asked, and (once answered) whether it succeeded and
\* which answer, in order, it was.
NoReq == [op |-> "none", id |-> 0, payload |-> NoRow, form |-> NoRow,
          rows |-> <<>>, ok |-> FALSE, seq |-> 0]
Req(op, id, payload, form) ==
    [op |-> op, id |-> id, payload |-> payload, form |-> form,
     rows |-> <<>>, ok |-> FALSE, seq |-> 0]
InsertReq(rows) == [Req("insert", 0, NoRow, NoRow) EXCEPT !.rows = rows]
Answered(req, ok) == [req EXCEPT !.ok = ok, !.seq = lastReq.seq + 1]

\* .select('*').eq('id', id)
StoreSelectEq(t, id) == {r \in t : r[K_id] = Num(id)}

\* .update(payload).eq('id', id): the columns of the payload are overwritten in
\* every row whose id matches.
StoreUpdateEq(t, id, payload) ==
    {[k \in DOMAIN r |->
        IF r[K_id] = Num(id) /\ k \in DOMAIN payload THEN payload[k] ELSE r[k]]
     : r \in t}

\* .delete().eq('id', id)
StoreDeleteEq(t, id) == {r \in t : ~(r[K_id] = Num(id))}

\* .delete().neq('id', n): the rows whose id differs from n are removed.
StoreDeleteNeq(t, n) == {r \in t : ~(r[K_id] # Num(n))}

MsgStore == <<"r","e","q","u","e","s","t"," ","f","a","i","l","e","d">>

StoreInit ==
    /\ table = {}
    /\ nextId = 1
    /\ lastReq = NoReq

-----------------------------------------------------------------------------
(* EntryDetail: src/src/contexts/AuthContext.tsx 132-399                   *)

MaxEntryOps == 4
MaxRowId == 2

T_A == <<"A">>
T_B == <<"B">>
T_x == <<"x">>
T_Theft == <<"T","h","e","f","t">>
T_2024_01_01 == <<"2","0","2","4","-","0","1","-","0","1">>
T_2023_12_31 == <<"2","0","2","3","-","1","2","-","3","1">>

\* The tables the view may find: any set of server-created rows with ids 1..MaxRowId.
SampleRow(i) ==
    Row(i, 100 + i, IF i % 2 = 1 THEN T_A ELSE T_B, T_B, T_Theft,
        IF i % 2 = 1 THEN T_2024_01_01 ELSE T_2023_12_31, T_x)
SampleTable(ids) == {SampleRow(i) : i \in ids}

\* useState<BlotterEntry>({...}) (139-145)
EmptyForm == [k \in EntryFields |-> Str(<<>>)]

\* the texts typed into the edit form
FormTexts == {<<"Z">>, T_B}

EntryInit ==
    /\ edMounted = FALSE
    /\ paramId = 0
    /\ entry = NoRow
    /\ formData = EmptyForm
    /\ edLoading = TRUE
    /\ isEditing = FALSE
    /\ edDeleteDialog = FALSE
    /\ entryReqs = {}
    /\ nEntryOps = 0

\* The route /entry/:id is entered: the view mounts and its effect (147-149)
\* calls fetchEntry.
EntryOpen(id) ==
    /\ ~edMounted
    /\ nEntryOps < MaxEntryOps
    /\ nEntryOps' = nEntryOps + 1
    /\ edMounted' = TRUE
    /\ paramId' = id
    /\ entry' = NoRow
    /\ formData' = EmptyForm
    /\ edLoading' = TRUE
    /\ isEditing' = FALSE
    /\ edDeleteDialog' = FALSE
    /\ entryReqs' = entryReqs \cup {Req("fetch", id, NoRow, NoRow)}
    /\ UNCHANGED <<uiVars, storeVars, nonEntryVars>>

\* The route parameter changes while the view stays mounted (history navigation
\* between two /entry/:id locations): the effect (147-149) runs again.
EntryParamChange(id) ==
    /\ edMounted
    /\ id # paramId
    /\ nEntryOps < MaxEntryOps
    /\ nEntryOps' = nEntryOps + 1
    /\ paramId' = id
    /\ entryReqs' = entryReqs \cup {Req("fetch", id, NoRow, NoRow)}
    /\ UNCHANGED <<edMounted, entry, formData, edLoading, isEditing,
                   edDeleteDialog, uiVars, storeVars, nonEntryVars>>

\* navigate('/') leaves the route of the view.
EntryLeave == edMounted' = FALSE

\* fetchEntry (151-168): the select answers.
FetchEntryResolve(req, ok) ==
    /\ req \in entryReqs /\ req.op = "fetch"
    /\ entryReqs' = entryReqs \ {req}
    /\ lastReq' = Answered(req, ok)
    /\ ok => Cardinality(StoreSelectEq(table, req.id)) = 1
    /\ IF ok
       THEN LET data == CHOOSE r \in StoreSelectEq(table, req.id) : TRUE IN
              /\ entry' = IF edMounted THEN data ELSE entry
              /\ formData' = IF edMounted THEN data ELSE formData
              /\ UNCHANGED <<uiVars, edMounted>>
       ELSE /\ toasts' = Append(toasts, Toast("error", "Error loading entry: ", MsgStore))
            /\ navLog' = Append(navLog, "/")
            /\ EntryLeave
            /\ UNCHANGED <<entry, formData>>
    /\ edLoading' = IF edMounted THEN FALSE ELSE edLoading
    /\ UNCHANGED <<table, nextId, paramId, isEditing, edDeleteDialog, nEntryOps,
                   nonEntryVars>>

\* The Edit button (263-270).
EditStart ==
    /\ edMounted /\ ~edLoading /\ entry # NoRow /\ ~isEditing
    /\ nEntryOps < MaxEntryOps
    /\ nEntryOps' = nEntryOps + 1
    /\ isEditing' = TRUE
    /\ UNCHANGED <<edMounted, paramId, entry, formData, edLoading, edDeleteDialog,
                   entryReqs, uiVars, storeVars, nonEntryVars>>

\* The X button (241-251).
EditCancel ==
    /\ edMounted /\ ~edLoading /\ entry # NoRow /\ isEditing
    /\ nEntryOps < MaxEntryOps
    /\ nEntryOps' = nEntryOps + 1
    /\ isEditing' = FALSE
    /\ formData' = entry
    /\ UNCHANGED <<edMounted, paramId, entry, edLoading, edDeleteDialog,
                   entryReqs, uiVars, storeVars, nonEntryVars>>

\* handleChange (203-210)
HandleChange(name, value) ==
    /\ edMounted /\ ~edLoading /\ entry # NoRow /\ isEditing
    /\ nEntryOps < MaxEntryOps
    /\ nEntryOps' = nEntryOps + 1
    /\ formData' = [k \in DOMAIN formData \cup {name} |->
                       IF k = name THEN Str(value) ELSE formData[k]]
    /\ UNCHANGED <<edMounted, paramId, entry, edLoading, isEditing,
                   edDeleteDialog, entryReqs, uiVars, storeVars, nonEntryVars>>

UpdatePayloadAll(form) == form
\* handleUpdate (173): const { id: _, created_at: __, ...updateData } = formData
UpdatePayload(form) ==
    [k \in DOMAIN form \ {K_id, K_created_at} |-> form[k]]

\* handleUpdate (170-178): the Save button, up to the await.
HandleUpdateCall ==
    /\ edMounted /\ ~edLoading /\ entry # NoRow /\ isEditing
    /\ nEntryOps < MaxEntryOps
    /\ nEntryOps' = nEntryOps + 1
    /\ entryReqs' = entryReqs \cup
                      {Req("update", paramId, UpdatePayload(formData), formData)}
    /\ UNCHANGED <<edMounted, paramId, entry, formData, edLoading, isEditing,
                   edDeleteDialog, uiVars, storeVars, nonEntryVars>>

\* handleUpdate (175-187): the update answers.
HandleUpdateResolve(req, ok) ==
    /\ req \in entryReqs /\ req.op = "update"
    /\ entryReqs' = entryReqs \ {req}
    /\ lastReq' = Answered(req, ok)
    /\ IF ok
       THEN /\ table' = StoreUpdateEq(table, req.id, req.payload)
            /\ entry' = IF edMounted THEN req.form ELSE entry
            /\ isEditing' = IF edMounted THEN FALSE ELSE isEditing
            /\ toasts' = Append(toasts, Toast("success", "Entry updated successfully", <<>>))
       ELSE /\ toasts' = Append(toasts, Toast("error", "Error updating entry: ", MsgStore))
            /\ UNCHANGED <<table, entry, isEditing>>
    /\ UNCHANGED <<navLog, nextId, edMounted, paramId, formData, edLoading,
                   edDeleteDialog, nEntryOps, nonEntryVars>>

\* The trash button (271-278) opens the confirmation dialog.
DeleteDialogOpen ==
    /\ edMounted /\ ~edLoading /\ entry # NoRow /\ ~isEditing /\ ~edDeleteDialog
    /\ nEntryOps < MaxEntryOps
    /\ nEntryOps' = nEntryOps + 1
    /\ edDeleteDialog' = TRUE
    /\ UNCHANGED <<edMounted, paramId, entry, formData, edLoading, isEditing,
                   entryReqs, uiVars, storeVars, nonEntryVars>>

StoreDeleteFrom(t, id) == {r \in t : r[K_id].n < id}
\* handleDelete (192): supabase.from('blotter_entries').delete().eq('id', id)
HandleDeleteStore(t, id) == StoreDeleteEq(t, id)

\* handleDelete (190-192): the dialog's Delete action, up to the await.
HandleDeleteCall ==
    /\ edMounted /\ ~edLoading /\ entry # NoRow /\ edDeleteDialog
    /\ edDeleteDialog' = FALSE
    /\ entryReqs' = entryReqs \cup {Req("delete", paramId, NoRow, NoRow)}
    /\ UNCHANGED <<edMounted, paramId, entry, formData, edLoading, isEditing,
                   nEntryOps, uiVars, storeVars, nonEntryVars>>

\* handleDelete (192-200): the delete answers.
HandleDeleteResolve(req, ok) ==
    /\ req \in entryReqs /\ req.op = "delete"
    /\ entryReqs' = entryReqs \ {req}
    /\ lastReq' = Answered(req, ok)
    /\ IF ok
       THEN /\ table' = HandleDeleteStore(table, req.id)
            /\ toasts' = Append(toasts, Toast("success", "Entry deleted successfully", <<>>))
            /\ navLog' = Append(navLog, "/")
            /\ EntryLeave
       ELSE /\ toasts' = Append(toasts, Toast("error", "Error deleting entry: ", MsgStore))
            /\ UNCHANGED <<table, navLog, edMounted>>
    /\ UNCHANGED <<nextId, paramId, entry, formData, edLoading, isEditing,
                   edDeleteDialog, nEntryOps, nonEntryVars>>

EntryNext ==
    \/ \E id \in 1..(MaxRowId + 1) : EntryOpen(id)
    \/ \E id \in 1..(MaxRowId + 1) : EntryParamChange(id)
    \/ \E req \in entryReqs, ok \in BOOLEAN : FetchEntryResolve(req, ok)
    \/ EditStart
    \/ EditCancel
    \/ \E name \in EntryFields, value \in FormTexts : HandleChange(name, value)
    \/ HandleUpdateCall
    \/ \E req \in entryReqs, ok \in BOOLEAN : HandleUpdateResolve(req, ok)
    \/ DeleteDialogOpen
    \/ HandleDeleteCall
    \/ \E req \in entryReqs, ok \in BOOLEAN : HandleDeleteResolve(req, ok)

-----------------------------------------------------------------------------
(* Dates: the JavaScript Date arithmetic of the import, in minutes (every  *)
(* quantity it adds is a whole number of minutes).                         *)

MinutesPerDay == 1440

\* Days from 1970-01-01 to the civil date y-m-d (proleptic Gregorian).
DaysFromCivil(y, m, d) ==
    LET yy == IF m <= 2 THEN y - 1 ELSE y
        era == yy \div 400
        yoe == yy - era * 400
        mp == IF m > 2 THEN m - 3 ELSE m + 9
        doy == (153 * mp + 2) \div 5 + d - 1
        doe == yoe * 365 + yoe \div 4 - yoe \div 100 + doy
    IN era * 146097 + doe - 719468

\* The civil date <<y, m, d>> of a day number.
CivilFromDays(days) ==
    LET z == days + 719468
        era == z \div 146097
        doe == z - era * 146097
        yoe == (doe - doe \div 1460 + doe \div 36524 - doe \div 146096) \div 365
        doy == doe - (365 * yoe + yoe \div 4 - yoe \div 100)
        mp == (5 * doy + 2) \div 153
        d == doy - (153 * mp + 2) \div 5 + 1
        m == IF mp < 10 THEN mp + 3 ELSE mp - 9
        y == yoe + era * 400 + (IF m <= 2 THEN 1 ELSE 0)
    IN <<y, m, d>>

DigitChars == <<"0","1","2","3","4","5","6","7","8","9">>
Digit(n) == DigitChars[(n % 10) + 1]
Pad2(n) == <<Digit(n \div 10), Digit(n)>>
Pad4(n) == <<Digit(n \div 1000), Digit(n \div 100), Digit(n \div 10), Digit(n)>>

\* date.toISOString().split('T')[0]: the UTC calendar date of a time value
IsoDate(time) ==
    LET c == CivilFromDays(time \div MinutesPerDay)
    IN Pad4(c[1]) \o <<"-">> \o Pad2(c[2]) \o <<"-">> \o Pad2(c[3])

\* new Date(1900, 0, 1).getTime(): local midnight of 1900-01-01, in a zone tz
\* minutes east of UTC
ExcelEpoch(tz) == DaysFromCivil(1900, 1, 1) * MinutesPerDay - tz

\* Settings.tsx 56-58: the date string of a serial value
SerialToIsoDate(value, tz) ==
    IsoDate(ExcelEpoch(tz) + (value - 2) * MinutesPerDay)

-----------------------------------------------------------------------------
(* Settings: src/src/pages/Settings.tsx                                    *)

MaxImports == 1
MaxSettingsOps == 3

\* Time zones of the browser: UTC-5, UTC and UTC+8 at 1900-01-01.
TimezoneOffsets == {-300, 0, 480}

IsSpace(c) == c = " "
\* String.prototype.trim
Trim(s) ==
    IF \A i \in 1..Len(s) : IsSpace(s[i])
    THEN <<>>
    ELSE LET first == CHOOSE i \in 1..Len(s) :
                        ~IsSpace(s[i]) /\ \A j \in 1..(i - 1) : IsSpace(s[j])
             last == CHOOSE i \in 1..Len(s) :
                        ~IsSpace(s[i]) /\ \A j \in (i + 1)..Len(s) : IsSpace(s[j])
         IN SubSeq(s, first, last)

NormalizeKeyTrimOnly(key) == Trim(key)
\* Settings.tsx 50: key.trim().toLowerCase()
NormalizeKey(key) == ToLowerCase(Trim(key))

NormalizeValueAnyColumn(key, value, tz) ==
    IF value.t = "number" THEN Str(SerialToIsoDate(value.n, tz)) ELSE value
\* Settings.tsx 51-59: the value stored under a normalized key
NormalizeValue(key, value, tz) ==
    IF key = K_date /\ value.t = "number"
    THEN Str(SerialToIsoDate(value.n, tz))
    ELSE value

\* A parsed row (sheet_to_json): its cells in key order.
Cell(key, value) == [key |-> key, value |-> value]

\* Settings.tsx 47-64: one normalized row; a later cell overwrites an earlier one
\* with the same normalized key.
NormalizeRow(row, tz) ==
    LET keys == [i \in 1..Len(row) |-> NormalizeKey(row[i].key)]
    IN [k \in {keys[i] : i \in 1..Len(row)} |->
          LET last == CHOOSE i \in 1..Len(row) :
                         keys[i] = k /\ \A j \in (i + 1)..Len(row) : keys[j] # k
          IN NormalizeValue(k, row[last].value, tz)]

NormalizeDataFirst(file, tz) ==
    [i \in 1..(IF file = <<>> THEN 0 ELSE 1) |-> NormalizeRow(file[i], tz)]
\* Settings.tsx 47: jsonData.map(...)
NormalizeData(file, tz) == [i \in 1..Len(file) |-> NormalizeRow(file[i], tz)]

\* What indexing past the end of an array gives
Undefined == [k \in {<<"u","n","d","e","f","i","n","e","d">>} |-> NullValue]

LastRow(data) == IF data = <<>> THEN Undefined ELSE data[Len(data)]
\* Settings.tsx 68: normalizedData[0]
FirstRow(data) == IF data = <<>> THEN Undefined ELSE data[1]

InNeverThrows(firstRow) == FALSE
\* Settings.tsx 69: `col in firstRow` throws a TypeError when firstRow is not
\* an object
InThrows(firstRow) == firstRow = Undefined

\* Settings.tsx 67
RequiredColumns ==
    <<K_blotter_entry, K_first_name, K_last_name, K_case_type, K_date>>

MissingColumnsButDate(firstRow) ==
    SelectSeq(RequiredColumns, LAMBDA col : col \notin DOMAIN firstRow /\ col # K_date)
\* Settings.tsx 69: requiredColumns.filter((col) => !(col in firstRow))
MissingColumns(firstRow) ==
    SelectSeq(RequiredColumns, LAMBDA col : col \notin DOMAIN firstRow)

\* Array.prototype.join(', ')
RECURSIVE JoinComma(_)
JoinComma(cols) ==
    IF cols = <<>> THEN <<>>
    ELSE IF Len(cols) = 1 THEN cols[1]
    ELSE cols[1] \o <<",", " ">> \o JoinComma(Tail(cols))

\* The texts of the import's notifications
MsgTypeError ==
    <<"C","a","n","n","o","t"," ","u","s","e"," ","'","i","n","'"," ",
      "o","p","e","r","a","t","o","r">>
MsgParse == <<"U","n","s","u","p","p","o","r","t","e","d"," ","f","i","l","e">>
T_DELETE == <<"D","E","L","E","T","E">>
T_delete == <<"d","e","l","e","t","e">>

\* Header spellings that differ from the required names by case and spaces
H_First_Name == <<" ","F","i","r","s","t","_","N","a","m","e">>
H_LAST_NAME == <<"L","A","S","T","_","N","A","M","E"," ">>
H_Case_Type == <<"C","a","s","e","_","T","y","p","e">>
H_Date == <<" ","D","a","t","e"," ">>
H_BLOTTER_ENTRY == <<"B","L","O","T","T","E","R","_","E","N","T","R","Y">>

\* The rows uploaded files are made of.
ClaimRow ==
    <<Cell(K_first_name, Str(T_A)), Cell(K_last_name, Str(T_B)),
      Cell(K_case_type, Str(T_Theft)), Cell(K_date, Num(45292)),
      Cell(K_blotter_entry, Str(T_x))>>
SpelledRow ==
    <<Cell(H_First_Name, Str(T_B)), Cell(H_LAST_NAME, Str(T_A)),
      Cell(H_Case_Type, Str(T_Theft)), Cell(H_Date, Str(T_2023_12_31)),
      Cell(H_BLOTTER_ENTRY, Str(T_x))>>
IdZeroRow ==
    <<Cell(K_id, Num(0)), Cell(K_first_name, Str(T_A)),
      Cell(K_last_name, Str(T_A)), Cell(K_case_type, Str(T_Theft)),
      Cell(K_date, Num(1)), Cell(K_blotter_entry, Str(T_x))>>
NoCaseTypeRow ==
    <<Cell(K_first_name, Str(T_A)), Cell(K_last_name, Str(T_B)),
      Cell(K_date, Num(45292)), Cell(K_blotter_entry, Str(T_x))>>
NoDateNoNameRow ==
    <<Cell(K_last_name, Str(T_B)), Cell(K_case_type, Str(T_Theft)),
      Cell(K_blotter_entry, Str(T_x))>>
NumericCaseRow ==
    <<Cell(K_id, Num(1)), Cell(K_first_name, Str(T_B)),
      Cell(K_last_name, Str(T_B)), Cell(K_case_type, Num(45292)),
      Cell(K_date, Str(T_2024_01_01)), Cell(K_blotter_entry, Str(T_x))>>
\* ClaimRow without the columns of `dropped`
DropColumns(row, dropped) == SelectSeq(row, LAMBDA c : c.key \notin dropped)

\* An uploaded file: the rows XLSX parses it into, or a file XLSX.read rejects.
ParsedFile(rows) == [parses |-> TRUE, rows |-> rows]
BadFile == [parses |-> FALSE, rows |-> <<>>]
NoFile == [parses |-> FALSE, rows |-> <<NoRow>>]

\* The files that are uploaded: an unreadable one, an empty sheet, one-row sheets
\* lacking any set of required columns, and sheets whose rows differ.
Files ==
    {BadFile, ParsedFile(<<>>)} \cup
    {ParsedFile(<<DropColumns(ClaimRow, d)>>) : d \in SUBSET EntryFields} \cup
    {ParsedFile(<<SpelledRow>>), ParsedFile(<<IdZeroRow>>),
     ParsedFile(<<NoDateNoNameRow, ClaimRow>>),
     ParsedFile(<<ClaimRow, NoCaseTypeRow>>),
     ParsedFile(<<NumericCaseRow, SpelledRow>>),
     ParsedFile(<<IdZeroRow, NumericCaseRow, ClaimRow>>)}

\* .insert(rows): the store takes the batch whole or not at all. It takes it when
\* every key is a column and the ids, given or drawn from the sequence, are new.
RowId(rows, next, i) ==
    IF K_id \in DOMAIN rows[i] THEN rows[i][K_id].n
    ELSE next + Cardinality({j \in 1..(i - 1) : K_id \notin DOMAIN rows[j]})
StoreCanInsert(t, rows, next) ==
    /\ \A i \in 1..Len(rows) : DOMAIN rows[i] \subseteq Columns
    /\ \A i \in 1..Len(rows) : K_id \in DOMAIN rows[i] => rows[i][K_id].t = "number"
    /\ \A i, j \in 1..Len(rows) : i # j => RowId(rows, next, i) # RowId(rows, next, j)
    /\ \A i \in 1..Len(rows) : \A r \in t : r[K_id] # Num(RowId(rows, next, i))
StoredRow(row, id) ==
    [k \in Columns |->
        CASE k = K_id -> Num(id)
          [] k \in DOMAIN row -> row[k]
          [] k = K_created_at -> Num(100 + id)
          [] OTHER -> NullValue]
StoreInsert(t, rows, next) ==
    t \cup {StoredRow(rows[i], RowId(rows, next, i)) : i \in 1..Len(rows)}
StoreNextId(rows, next) ==
    next + Cardinality({i \in 1..Len(rows) : K_id \notin DOMAIN rows[i]})

SettingsInit ==
    /\ stMounted = TRUE
    /\ importing = FALSE
    /\ pcImport = "idle"
    /\ impFile = NoFile
    /\ impRows = <<>>
    /\ stDeleteDialog = FALSE
    /\ deleteConfirmation = <<>>
    /\ pcDeleteAll = "idle"
    /\ tzOffset \in TimezoneOffsets
    /\ nImports = 0
    /\ nSettingsOps = 0

\* The view as the other views' specifications hold it: untouched.
SettingsIdle == SettingsInit /\ tzOffset = 0

\* The route /settings is entered again: the view mounts with fresh state.
SettingsOpen ==
    /\ ~stMounted
    /\ pcImport \in {"idle", "stuck"} /\ pcDeleteAll = "idle"
    /\ stMounted' = TRUE
    /\ importing' = FALSE
    /\ pcImport' = "idle"
    /\ stDeleteDialog' = FALSE
    /\ deleteConfirmation' = <<>>
    /\ UNCHANGED <<impFile, impRows, pcDeleteAll, tzOffset, nImports, nSettingsOps,
                   uiVars, storeVars, nonSettingsVars>>

\* navigate('/') leaves the route of the view.
SettingsLeave == stMounted' = FALSE

\* handleFileUpload (29-36, 91): a file is selected and handed to the reader.
ImportSelect(file) ==
    /\ stMounted /\ ~importing /\ pcImport = "idle"
    /\ nImports < MaxImports
    /\ nImports' = nImports + 1
    /\ importing' = TRUE
    /\ pcImport' = "reading"
    /\ impFile' = file
    /\ impRows' = <<>>
    /\ UNCHANGED <<stMounted, stDeleteDialog, deleteConfirmation, pcDeleteAll,
                   tzOffset, nSettingsOps, uiVars, storeVars, nonSettingsVars>>

\* The reader fails (its error event): onload, the only handler set (38), is
\* never called.
ImportReadFails ==
    /\ pcImport = "reading"
    /\ pcImport' = "stuck"
    /\ UNCHANGED <<stMounted, importing, impFile, impRows, stDeleteDialog,
                   deleteConfirmation, pcDeleteAll, tzOffset, nImports,
                   nSettingsOps, uiVars, storeVars, nonSettingsVars>>

\* Settings.tsx 72: the notification naming the missing columns
MissingColumnsToast(missing) ==
    Toast("error", "Missing columns: ", JoinComma(missing))

\* reader.onload (38-88), up to the await of the insert or to its early end.
ImportOnLoad ==
    /\ pcImport = "reading"
    /\ \E data \in {NormalizeData(impFile.rows, tzOffset)} :
       \E firstRow \in {FirstRow(data)} :
         IF ~impFile.parses
         THEN /\ toasts' = Append(toasts, Toast("error", "Error processing file: ", MsgParse))
              /\ importing' = FALSE
              /\ pcImport' = "idle"
              /\ UNCHANGED impRows
         ELSE IF InThrows(firstRow)
         THEN /\ toasts' = Append(toasts, Toast("error", "Error processing file: ", MsgTypeError))
              /\ importing' = FALSE
              /\ pcImport' = "idle"
              /\ UNCHANGED impRows
         ELSE IF MissingColumns(firstRow) # <<>>
         THEN /\ toasts' = Append(toasts, MissingColumnsToast(MissingColumns(firstRow)))
              /\ importing' = FALSE
              /\ pcImport' = "idle"
              /\ UNCHANGED impRows
         ELSE /\ pcImport' = "inserting"
              /\ impRows' = data
              /\ UNCHANGED <<toasts, importing>>
    /\ UNCHANGED <<navLog, stMounted, impFile, stDeleteDialog, deleteConfirmation,
                   pcDeleteAll, tzOffset, nImports, nSettingsOps, storeVars,
                   nonSettingsVars>>

\* `${normalizedData.length}`: a count in decimal
RECURSIVE NumberText(_)
NumberText(n) == IF n < 10 THEN <<Digit(n)>> ELSE NumberText(n \div 10) \o <<Digit(n)>>

\* reader.onload (78-88): the batch insert answers.
ImportInsertResolve(ok) ==
    /\ pcImport = "inserting"
    /\ LET rows == impRows IN
         /\ ok => StoreCanInsert(table, rows, nextId)
         /\ lastReq' = Answered(InsertReq(rows), ok)
         /\ IF ok
            THEN /\ table' = StoreInsert(table, rows, nextId)
                 /\ nextId' = StoreNextId(rows, nextId)
                 /\ toasts' = Append(toasts,
                       Toast("success", "Successfully imported ",
                             NumberText(Len(rows)) \o <<" ","e","n","t","r","i","e","s">>))
                 /\ navLog' = Append(navLog, "/")
                 /\ SettingsLeave
            ELSE /\ toasts' = Append(toasts, Toast("error", "Error processing file: ", MsgStore))
                 /\ UNCHANGED <<table, nextId, navLog, stMounted>>
    /\ importing' = FALSE
    /\ pcImport' = "idle"
    /\ UNCHANGED <<impFile, impRows, stDeleteDialog, deleteConfirmation,
                   pcDeleteAll, tzOffset, nImports, nSettingsOps, nonSettingsVars>>

\* The Delete All Entries button (186-192).
DeleteDialogShow ==
    /\ stMounted /\ ~stDeleteDialog
    /\ nSettingsOps < MaxSettingsOps
    /\ nSettingsOps' = nSettingsOps + 1
    /\ stDeleteDialog' = TRUE
    /\ UNCHANGED <<stMounted, importing, pcImport, impFile, impRows, deleteConfirmation,
                   pcDeleteAll, tzOffset, nImports, uiVars, storeVars,
                   nonSettingsVars>>

\* The confirmation input (208-213).
SetDeleteConfirmation(text) ==
    /\ stMounted /\ stDeleteDialog
    /\ text # deleteConfirmation
    /\ nSettingsOps < MaxSettingsOps
    /\ nSettingsOps' = nSettingsOps + 1
    /\ deleteConfirmation' = text
    /\ UNCHANGED <<stMounted, importing, pcImport, impFile, impRows, stDeleteDialog,
                   pcDeleteAll, tzOffset, nImports, uiVars, storeVars,
                   nonSettingsVars>>

\* The dialog's Cancel (218-224).
DeleteDialogCancel ==
    /\ stMounted /\ stDeleteDialog
    /\ nSettingsOps < MaxSettingsOps
    /\ nSettingsOps' = nSettingsOps + 1
    /\ stDeleteDialog' = FALSE
    /\ deleteConfirmation' = <<>>
    /\ UNCHANGED <<stMounted, importing, pcImport, impFile, impRows, pcDeleteAll, tzOffset,
                   nImports, uiVars, storeVars, nonSettingsVars>>

\* handleDeleteAll (104)
DeleteAllConfirmed(text) == text = T_DELETE

\* The dialog's Delete All action (225-231): disabled unless the text is DELETE
DeleteAllEnabled(text) == text = T_DELETE

\* The click on the dialog's Delete All action (198, 225-231) and handleDeleteAll
\* (103-110), up to its early return or to the await: as the Delete action of
\* the entry's dialog, the action closes its dialog on the click.
HandleDeleteAllCall ==
    /\ stMounted /\ stDeleteDialog /\ pcDeleteAll = "idle"
    /\ DeleteAllEnabled(deleteConfirmation)
    /\ nSettingsOps < MaxSettingsOps
    /\ nSettingsOps' = nSettingsOps + 1
    /\ stDeleteDialog' = FALSE
    /\ IF ~DeleteAllConfirmed(deleteConfirmation)
       THEN /\ toasts' = Append(toasts, Toast("error", "Please type DELETE to confirm", <<>>))
            /\ UNCHANGED pcDeleteAll
       ELSE /\ pcDeleteAll' = "await"
            /\ UNCHANGED toasts
    /\ UNCHANGED <<navLog, stMounted, importing, pcImport, impFile, impRows,
                   deleteConfirmation, tzOffset, nImports, storeVars,
                   nonSettingsVars>>

\* handleDeleteAll (110): supabase.from('blotter_entries').delete().neq('id', 0)
HandleDeleteAllStore(t) == StoreDeleteNeq(t, 0)

\* handleDeleteAll (110-120): the delete answers.
HandleDeleteAllResolve(ok) ==
    /\ pcDeleteAll = "await"
    /\ pcDeleteAll' = "idle"
    /\ lastReq' = Answered(Req("deleteAll", 0, NoRow, NoRow), ok)
    /\ IF ok
       THEN /\ table' = HandleDeleteAllStore(table)
            /\ toasts' = Append(toasts, Toast("success", "All entries deleted successfully", <<>>))
            /\ stDeleteDialog' = FALSE
            /\ deleteConfirmation' = <<>>
            /\ navLog' = Append(navLog, "/")
            /\ SettingsLeave
       ELSE /\ toasts' = Append(toasts, Toast("error", "Error deleting entries: ", MsgStore))
            /\ UNCHANGED <<table, stDeleteDialog, deleteConfirmation, navLog, stMounted>>
    /\ UNCHANGED <<nextId, importing, pcImport, impFile, impRows, tzOffset, nImports,
                   nSettingsOps, nonSettingsVars>>

\* The import alone, on every file.
ImportNext ==
    \/ SettingsOpen
    \/ \E file \in Files : ImportSelect(file)
    \/ ImportReadFails
    \/ ImportOnLoad
    \/ \E ok \in BOOLEAN : ImportInsertResolve(ok)

\* The files uploaded in the runs that also delete.
FewFiles == {ParsedFile(<<ClaimRow>>), ParsedFile(<<IdZeroRow>>)}

\* The whole view: import and delete-all.
SettingsNext ==
    \/ SettingsOpen
    \/ \E file \in FewFiles : ImportSelect(file)
    \/ ImportReadFails
    \/ ImportOnLoad
    \/ \E ok \in BOOLEAN : ImportInsertResolve(ok)
    \/ DeleteDialogShow
    \/ \E text \in {<<>>, T_DELETE, T_delete} : SetDeleteConfirmation(text)
    \/ DeleteDialogCancel
    \/ HandleDeleteAllCall
    \/ \E ok \in BOOLEAN : HandleDeleteAllResolve(ok)

-----------------------------------------------------------------------------
(* BlotterList, server-side: src/src/contexts/AuthContext.tsx 424-794      *)

RowsPerPage == 20
MaxListOps == 3

\* A list query: the effect that sent it, the terms and the page it closed over.
NoFetch == [kind |-> "none", first |-> <<>>, last |-> <<>>, page |-> 0]
Fetch(kind, first, last, page) ==
    [kind |-> kind, first |-> first, last |-> last, page |-> page]

\* The LIKE of the store: % (and *, its spelling in the request) matches any
\* text, _ matches any one letter, \ takes the next letter literally; ILIKE
\* compares letters without case.
RECURSIVE LikeMatch(_, _)
LikeMatch(text, pattern) ==
    IF pattern = <<>> THEN text = <<>>
    ELSE IF Head(pattern) \in {"%", "*"}
    THEN \/ LikeMatch(text, Tail(pattern))
         \/ text # <<>> /\ LikeMatch(Tail(text), pattern)
    ELSE IF Head(pattern) = "_"
    THEN text # <<>> /\ LikeMatch(Tail(text), Tail(pattern))
    ELSE IF Head(pattern) = "\\" /\ Len(pattern) > 1
    THEN /\ text # <<>>
         /\ LowerChar(Head(text)) = LowerChar(pattern[2])
         /\ LikeMatch(Tail(text), Tail(Tail(pattern)))
    ELSE /\ text # <<>>
         /\ LowerChar(Head(text)) = LowerChar(Head(pattern))
         /\ LikeMatch(Tail(text), Tail(pattern))

\* `%${term.toLowerCase()}%` (519, 522)
IlikePattern(term) == <<"%">> \o ToLowerCase(term) \o <<"%">>
\* .ilike(column, pattern) on one value
Ilike(value, pattern) == value.t = "string" /\ LikeMatch(value.s, pattern)

\* The rows a query selects: all for the initial fetch (478-481); for the search
\* fetch (513-523) a filter per non-empty term.
FetchMatches(t, f) ==
    {r \in t :
        /\ (f.kind = "search" /\ f.first # <<>>) =>
               Ilike(r[K_first_name], IlikePattern(f.first))
        /\ (f.kind = "search" /\ f.last # <<>>) =>
               Ilike(r[K_last_name], IlikePattern(f.last))}

\* .order('date', { ascending: false }): the date column compares by calendar date
DigitValues ==
    [c \in {DigitChars[n] : n \in 1..10} |->
        (CHOOSE n \in 1..10 : DigitChars[n] = c) - 1]
DigitValue(c) == DigitValues[c]
DateKey(s) ==
    (DigitValue(s[1]) * 1000 + DigitValue(s[2]) * 100 + DigitValue(s[3]) * 10
       + DigitValue(s[4])) * 10000
    + (DigitValue(s[6]) * 10 + DigitValue(s[7])) * 100
    + DigitValue(s[9]) * 10 + DigitValue(s[10])
\* each row with the key of its date and its id
DateKeyed(rows) == {<<DateKey(r[K_date].s), r[K_id].n, r>> : r \in rows}
\* the elements of a set, one after the other
RECURSIVE SetToSeq(_)
SetToSeq(set) ==
    IF set = {} THEN <<>>
    ELSE <<CHOOSE x \in set : TRUE>> \o SetToSeq(set \ {CHOOSE x \in set : TRUE})
\* the rows by descending date (rows of one date in the order of their ids)
DateRanked(keyed) ==
    SortSeq(SetToSeq(keyed),
            LAMBDA p, q : \/ p[1] > q[1]
                          \/ p[1] = q[1] /\ p[2] < q[2])

\* .range(from, to) (482, 526)
RangeFromNextPage(page) == page * RowsPerPage
RangeFrom(page) == (page - 1) * RowsPerPage
RangeTo(page) == (page * RowsPerPage) - 1
\* the rows at the positions from..to of the ordered result
RangeRows(ranked, from, to) ==
    LET last == IF to < Len(ranked) - 1 THEN to ELSE Len(ranked) - 1
    IN [k \in 1..(last - from + 1) |-> ranked[from + k][3]]

\* Math.ceil((count || 0) / ROWS_PER_PAGE) (487, 531)
TotalPages(count) == (count + RowsPerPage - 1) \div RowsPerPage

\* The tables the list is opened on: n server-created rows with dates that
\* differ. No first name holds an underscore, and some hold an "a" after
\* another letter; the last names of the first 21 rows hold a "b".
ListSizes == {0, 45}
ListRow(i) ==
    Row(i, 100 + i,
        IF i % 5 \in {0, 3} THEN <<"E">> ELSE IF i % 2 = 1 THEN T_A ELSE <<"C","a">>,
        IF i <= 21 THEN T_B ELSE <<"D">>,
        T_Theft,
        IsoDate((DaysFromCivil(2024, 1, 1) + i) * MinutesPerDay),
        T_x)
ListTable(n) == {ListRow(i) : i \in 1..n}

\* the texts typed into the search inputs: one with a pattern character, one
\* in another case than the stored names
FirstNameTexts == {<<>>, <<"_","a">>}
LastNameTexts == {<<>>, T_B}

ListInit ==
    /\ lsMounted = TRUE
    /\ lsSession = NullSession
    /\ entries = <<>>
    /\ lsLoading = TRUE
    /\ firstNameSearch = <<>>
    /\ lastNameSearch = <<>>
    /\ debouncedFirstName = <<>>
    /\ debouncedLastName = <<>>
    /\ timerFirstName = FALSE
    /\ timerLastName = FALSE
    /\ currentPage = 1
    /\ totalPages = 1
    /\ totalCount = 0
    /\ fetches = <<>>
    /\ lastFetch = [req |-> NoFetch, ok |-> FALSE]
    /\ nListOps = 0

ListSetKeeps(new, old) == old
\* setState of the view: dropped once it has unmounted
ListSet(new, old) == IF lsMounted THEN new ELSE old

\* The fetch effects' guard and start (472-476, 507-511): with a session each
\* sets loading and sends its query; without one neither does anything.
FetchEffectsNone(sent) == <<>>
FetchEffects(sent) == IF session # NullSession THEN sent ELSE <<>>
FetchLoading(sent) == IF FetchEffects(sent) # <<>> THEN TRUE ELSE lsLoading

\* The session of the provider changed: the view renders again and the two
\* effects that depend on it run (470-498, 505-542).
ListSessionEffect ==
    /\ lsMounted /\ session # lsSession
    /\ lsSession' = session
    /\ \E sent \in {<<Fetch("initial", <<>>, <<>>, currentPage),
                     Fetch("search", debouncedFirstName, debouncedLastName,
                           currentPage)>>} :
          /\ fetches' = fetches \o FetchEffects(sent)
          /\ lsLoading' = FetchLoading(sent)
    /\ UNCHANGED <<lsMounted, entries, firstNameSearch, lastNameSearch,
                   debouncedFirstName, debouncedLastName, timerFirstName,
                   timerLastName, currentPage, totalPages, totalCount, lastFetch,
                   nListOps, authVars, uiVars, nonListVars>>

\* The view is on screen with its inputs and buttons (549-555), and its effects
\* have run.
ListInteractive == lsMounted /\ ~lsLoading /\ session = lsSession

\* The first-name input (667-669): the text changes and its debounce restarts.
SetFirstNameSearch(text) ==
    /\ ListInteractive
    /\ text # firstNameSearch
    /\ nListOps < MaxListOps
    /\ nListOps' = nListOps + 1
    /\ firstNameSearch' = text
    /\ timerFirstName' = TRUE
    /\ UNCHANGED <<lsMounted, lsSession, entries, lsLoading, lastNameSearch,
                   debouncedFirstName, debouncedLastName, timerLastName,
                   currentPage, totalPages, totalCount, fetches, lastFetch, authVars,
                   uiVars, nonListVars>>

\* The last-name input (674-679).
SetLastNameSearch(text) ==
    /\ ListInteractive
    /\ text # lastNameSearch
    /\ nListOps < MaxListOps
    /\ nListOps' = nListOps + 1
    /\ lastNameSearch' = text
    /\ timerLastName' = TRUE
    /\ UNCHANGED <<lsMounted, lsSession, entries, lsLoading, firstNameSearch,
                   debouncedFirstName, debouncedLastName, timerFirstName,
                   currentPage, totalPages, totalCount, fetches, lastFetch, authVars,
                   uiVars, nonListVars>>

UseDebounceEmpty(value) == <<>>
\* useDebounce(value, 500): once the delay has passed with no further change,
\* the debounced value becomes the value.
UseDebounce(value) == value

PageResetKeeps(page) == page
\* The page-reset effect (500-503): setCurrentPage(1)
PageResetEffect(page) == 1

\* The effects that run when a debounced term has changed: the page reset
\* (500-503), and the fetch effect (505-542) with the page of the render that
\* saw the change; when the reset changed the page, the next render runs the
\* fetch effect again with page 1.
SearchEffects(first, last) ==
    /\ currentPage' = PageResetEffect(currentPage)
    /\ \E sent \in {<<Fetch("search", first, last, currentPage)>> \o
                    (IF PageResetEffect(currentPage) # currentPage
                     THEN <<Fetch("search", first, last,
                                  PageResetEffect(currentPage))>>
                     ELSE <<>>)} :
          /\ fetches' = fetches \o FetchEffects(sent)
          /\ lsLoading' = FetchLoading(sent)

\* The debounce of the first name runs out.
DebounceFirstName ==
    /\ lsMounted /\ timerFirstName /\ session = lsSession
    /\ timerFirstName' = FALSE
    /\ debouncedFirstName' = UseDebounce(firstNameSearch)
    /\ IF UseDebounce(firstNameSearch) # debouncedFirstName
       THEN SearchEffects(UseDebounce(firstNameSearch), debouncedLastName)
       ELSE UNCHANGED <<currentPage, fetches, lsLoading>>
    /\ UNCHANGED <<lsMounted, lsSession, entries, firstNameSearch, lastNameSearch,
                   debouncedLastName, timerLastName, totalPages, totalCount,
                   lastFetch, nListOps, authVars, uiVars, nonListVars>>

\* The debounce of the last name runs out.
DebounceLastName ==
    /\ lsMounted /\ timerLastName /\ session = lsSession
    /\ timerLastName' = FALSE
    /\ debouncedLastName' = UseDebounce(lastNameSearch)
    /\ IF UseDebounce(lastNameSearch) # debouncedLastName
       THEN SearchEffects(debouncedFirstName, UseDebounce(lastNameSearch))
       ELSE UNCHANGED <<currentPage, fetches, lsLoading>>
    /\ UNCHANGED <<lsMounted, lsSession, entries, firstNameSearch, lastNameSearch,
                   debouncedFirstName, timerFirstName, totalPages, totalCount,
                   lastFetch, nListOps, authVars, uiVars, nonListVars>>

\* handlePageChange (544-547) and the fetch effect it triggers (505-542).
HandlePageChange(newPage) ==
    /\ nListOps < MaxListOps
    /\ nListOps' = nListOps + 1
    /\ currentPage' = newPage
    /\ \E sent \in {<<Fetch("search", debouncedFirstName, debouncedLastName,
                           newPage)>>} :
          /\ fetches' = fetches \o FetchEffects(sent)
          /\ lsLoading' = FetchLoading(sent)
    /\ UNCHANGED <<lsMounted, lsSession, entries, firstNameSearch, lastNameSearch,
                   debouncedFirstName, debouncedLastName, timerFirstName,
                   timerLastName, totalPages, totalCount, lastFetch, authVars,
                   uiVars, nonListVars>>

\* The Previous button (748-758)
PagePrevious ==
    /\ ListInteractive
    /\ totalPages > 1 /\ currentPage # 1
    /\ HandlePageChange(currentPage - 1)

\* The Next button (762-772)
PageNext ==
    /\ ListInteractive
    /\ totalPages > 1 /\ ~(currentPage >= totalPages)
    /\ HandlePageChange(currentPage + 1)

\* A link or button of the view navigates away (733, 782): the view unmounts and
\* its timers are cleared.
ListLeave ==
    /\ ListInteractive
    /\ nListOps < MaxListOps
    /\ nListOps' = nListOps + 1
    /\ lsMounted' = FALSE
    /\ timerFirstName' = FALSE
    /\ timerLastName' = FALSE
    /\ navLog' = Append(navLog, "/add")
    /\ UNCHANGED <<lsSession, entries, lsLoading, firstNameSearch, lastNameSearch,
                   debouncedFirstName, debouncedLastName, currentPage, totalPages,
                   totalCount, fetches, lastFetch, toasts, authVars, nonListVars>>

FetchErrorToastAsSuccess(message) == Toast("success", "Entries loaded", message)
\* The catch of the two fetch effects (490-491, 534-535)
FetchErrorToast(message) == Toast("error", "Error loading entries: ", message)

\* A list query is answered (478-494, 525-538): any of those in flight, with
\* the rows of its range or with an error.
FetchResolve(i, ok) ==
    /\ i \in 1..Len(fetches)
    /\ fetches' = SubSeq(fetches, 1, i - 1) \o SubSeq(fetches, i + 1, Len(fetches))
    /\ lastFetch' = [req |-> fetches[i], ok |-> ok]
    /\ IF ok
       THEN \E matched \in {FetchMatches(table, fetches[i])} :
            \E keyed \in {DateKeyed(matched)} :
            \E ranked \in {DateRanked(keyed)} :
               /\ totalCount' = ListSet(Cardinality(matched), totalCount)
               /\ totalPages' = ListSet(TotalPages(Cardinality(matched)), totalPages)
               /\ entries' = ListSet(RangeRows(ranked,
                                               RangeFrom(fetches[i].page),
                                               RangeTo(fetches[i].page)),
                                     entries)
               /\ UNCHANGED <<toasts, nListOps>>
       ELSE /\ nListOps < MaxListOps
            /\ nListOps' = nListOps + 1
            /\ toasts' = Append(toasts, FetchErrorToast(MsgStore))
            /\ UNCHANGED <<totalCount, totalPages, entries>>
    /\ lsLoading' = ListSet(FALSE, lsLoading)
    /\ UNCHANGED <<lsMounted, lsSession, firstNameSearch, lastNameSearch,
                   debouncedFirstName, debouncedLastName, timerFirstName,
                   timerLastName, currentPage, navLog, authVars,
                   nonListVars>>

\* The sessions the SDK reports while the list is on screen: a refreshed token,
\* or none after a sign-out elsewhere.
ListSessions == {NullSession, [user |-> "u1", token |-> 1], [user |-> "u1", token |-> 2]}

ListNext ==
    \/ AuthInitResolve
    \/ ListSessionEffect
    \/ \E text \in FirstNameTexts : SetFirstNameSearch(text)
    \/ \E text \in LastNameTexts : SetLastNameSearch(text)
    \/ DebounceFirstName
    \/ DebounceLastName
    \/ PagePrevious
    \/ PageNext
    \/ ListLeave
    \/ \E i \in 1..Len(fetches), ok \in BOOLEAN : FetchResolve(i, ok)

\* The SDK reports another session while the list is on screen: the subscriber
\* of the provider (37-41) takes it.
ListSessionChange(s) ==
    /\ lsMounted /\ ~initPending
    /\ s # sdkSession
    /\ nListOps < MaxListOps
    /\ nListOps' = nListOps + 1
    /\ sdkSession' = s
    /\ session' = HandlerSession(s)
    /\ user' = HandlerUser(s)
    /\ UNCHANGED <<authLoading, mounted, initPending, pcIn, inCred, inResult,
                   inNavs, pcOut, outErr, outSteps, nAuthOps, uiVars>>
    /\ UNCHANGED <<lsMounted, lsSession, entries, lsLoading, firstNameSearch,
                   lastNameSearch, debouncedFirstName, debouncedLastName,
                   timerFirstName, timerLastName, currentPage, totalPages,
                   totalCount, fetches, lastFetch, nonListVars>>

\* The list with a session that changes under it.
SessionListNext ==
    \/ AuthInitResolve
    \/ \E s \in ListSessions : ListSessionChange(s)
    \/ ListSessionEffect
    \/ \E text \in LastNameTexts : SetLastNameSearch(text)
    \/ DebounceLastName
    \/ PagePrevious
    \/ PageNext
    \/ \E i \in 1..Len(fetches), ok \in BOOLEAN : FetchResolve(i, ok)

\* the texts of a burst of keystrokes: each one key further than the last
BurstTexts == {<<>>, T_B, <<"B","o">>}

\* The list with keystrokes in its two search inputs and the debounce of each.
DebounceNext ==
    \/ AuthInitResolve
    \/ ListSessionEffect
    \/ \E text \in BurstTexts : SetFirstNameSearch(text)
    \/ \E text \in BurstTexts : SetLastNameSearch(text)
    \/ DebounceFirstName
    \/ DebounceLastName
    \/ \E i \in 1..Len(fetches), ok \in BOOLEAN : FetchResolve(i, ok)

\* The view as the other views' specifications hold it: not on screen.
ListIdle ==
    /\ lsMounted = FALSE
    /\ lsSession = NullSession
    /\ entries = <<>>
    /\ lsLoading = TRUE
    /\ firstNameSearch = <<>>
    /\ lastNameSearch = <<>>
    /\ debouncedFirstName = <<>>
    /\ debouncedLastName = <<>>
    /\ timerFirstName = FALSE
    /\ timerLastName = FALSE
    /\ currentPage = 1
    /\ totalPages = 1
    /\ totalCount = 0
    /\ fetches = <<>>
    /\ lastFetch = [req |-> NoFetch, ok |-> FALSE]
    /\ nListOps = 0

-----------------------------------------------------------------------------
(* BlotterList, client-side: the session-gated variant (src/unnamed/part_000 *)
(* 25-295) and the older one (src/src/contexts/AuthContext.tsx 807-998).     *)

MaxClientOps == 3

ClientVariants == {"session-gated", "older"}

T_all == <<"a","l","l">>
T_Fraud == <<"F","r","a","u","d">>
T_Arson == <<"A","r","s","o","n">>

\* The table the client-side list is opened on: rows as BlotterEntry declares
\* them (every field a string), whose ids are not in the order of their dates.
\* "th" occurs, in one case or another, in a first name, a last name, a case
\* type and an entry text.
ClientRow(i) ==
    CASE i = 1 -> Row(1, 101, <<"A","l">>, <<"B","o">>, T_Theft,
                      <<"2","0","2","4","-","0","1","-","0","3">>, T_x)
      [] i = 2 -> Row(2, 102, <<"T","h","e","o">>, <<"C","y">>, T_Fraud,
                      <<"2","0","2","4","-","0","1","-","0","5">>, T_x)
      [] i = 3 -> Row(3, 103, <<"D","i">>, <<"E","T","H">>, T_Fraud,
                      T_2024_01_01, T_x)
      [] i = 4 -> Row(4, 104, <<"F","a">>, <<"G","o">>, T_Arson,
                      <<"2","0","2","4","-","0","1","-","0","4">>,
                      <<"b","a","t","h">>)
      [] OTHER -> Row(i, 100 + i, <<"H","u">>, <<"I","z">>, T_Arson,
                      T_2023_12_31, <<"w">>)
ClientTable == {ClientRow(i) : i \in 1..5}

\* the texts typed into the search box, and the case types picked
SearchTexts == {<<>>, <<"T","h">>, <<"z">>}
CaseTypeChoices == {T_all, T_Fraud, <<"f","r","a","u","d">>}

ClientInit ==
    /\ clMounted = FALSE
    /\ clVariant \in ClientVariants
    /\ clSession = NullSession
    /\ clEntries = <<>>
    /\ filteredEntries = <<>>
    /\ clLoading = TRUE
    /\ searchText = <<>>
    /\ caseTypeFilter = T_all
    /\ clFetches = 0
    /\ nClientOps = 0

\* The view as the other views' specifications hold it: not on screen.
ClientIdle == ClientInit /\ clVariant = "older"

\* setState of the view: dropped once it has unmounted
ClientSet(new, old) == IF clMounted THEN new ELSE old

\* The fetch effect (part_000 36-39; AuthContext.tsx 817-819): the session-gated
\* variant returns early without a session, the older one calls fetchEntries
\* whatever the session is.
ClientFetchGate(variant) == variant = "older" \/ session # NullSession

\* fetchEntries (part_000 47-50; AuthContext.tsx 827-830): the whole table by
\* descending date
FetchEntriesData(t) ==
    LET ranked == DateRanked(DateKeyed(t))
    IN [k \in 1..Len(ranked) |-> ranked[k][3]]

EntryMatchesNames(e, search) ==
    \/ Includes(ToLowerCase(e[K_first_name].s), search)
    \/ Includes(ToLowerCase(e[K_last_name].s), search)
\* filterEntries (part_000 67-71; AuthContext.tsx 847-851): the predicate of the
\* search filter, on the lower-cased search text
EntryMatches(e, search) ==
    \/ Includes(ToLowerCase(e[K_first_name].s), search)
    \/ Includes(ToLowerCase(e[K_last_name].s), search)
    \/ Includes(ToLowerCase(e[K_case_type].s), search)
    \/ Includes(ToLowerCase(e[K_blotter_entry].s), search)

\* filterEntries (part_000 61-80; AuthContext.tsx 841-860)
FilterEntries(es, text, caseType) ==
    LET search == ToLowerCase(text)
        bySearch == IF text # <<>>
                    THEN SelectSeq(es, LAMBDA e : EntryMatches(e, search))
                    ELSE es
    IN IF caseType # T_all
       THEN SelectSeq(bySearch, LAMBDA e : e[K_case_type] = Str(caseType))
       ELSE bySearch

\* The route '/' is entered: the view mounts with fresh state and its two
\* effects run (the selects of an earlier mount have been answered).
ClientOpen ==
    /\ ~clMounted /\ clFetches = 0
    /\ nClientOps < MaxClientOps
    /\ nClientOps' = nClientOps + 1
    /\ clMounted' = TRUE
    /\ clSession' = session
    /\ clEntries' = <<>>
    /\ filteredEntries' = FilterEntries(<<>>, <<>>, T_all)
    /\ clLoading' = TRUE
    /\ searchText' = <<>>
    /\ caseTypeFilter' = T_all
    /\ clFetches' = IF ClientFetchGate(clVariant) THEN clFetches + 1 ELSE clFetches
    /\ UNCHANGED <<clVariant, authVars, uiVars, nonClientVars>>

\* The session of the provider changed: the view renders again, and the fetch
\* effect of the session-gated variant, which depends on it, runs (part_000
\* 36-39). The effect of the older variant has no dependencies.
ClientSessionEffect ==
    /\ clMounted /\ session # clSession
    /\ clSession' = session
    /\ clFetches' = IF clVariant = "session-gated" /\ ClientFetchGate(clVariant)
                    THEN clFetches + 1 ELSE clFetches
    /\ UNCHANGED <<clMounted, clVariant, clEntries, filteredEntries, clLoading,
                   searchText, caseTypeFilter, nClientOps, authVars, uiVars,
                   nonClientVars>>

\* fetchEntries (part_000 45-59; AuthContext.tsx 825-839): the select answers;
\* the filter effect (41-43; 821-823) runs on the new entries.
ClientFetchResolve(ok) ==
    /\ clFetches > 0
    /\ clFetches' = clFetches - 1
    /\ IF ok
       THEN \E data \in {FetchEntriesData(table)} :
               /\ clEntries' = ClientSet(data, clEntries)
               /\ filteredEntries' =
                     ClientSet(FilterEntries(data, searchText, caseTypeFilter),
                               filteredEntries)
               /\ UNCHANGED toasts
       ELSE /\ toasts' = Append(toasts, Toast("error", "Error loading entries: ", MsgStore))
            /\ UNCHANGED <<clEntries, filteredEntries>>
    /\ clLoading' = ClientSet(FALSE, clLoading)
    /\ UNCHANGED <<clMounted, clVariant, clSession, searchText, caseTypeFilter,
                   nClientOps, navLog, authVars, nonClientVars>>

\* The view shows its inputs (part_000 87-93; AuthContext.tsx 867-873).
ClientInteractive == clMounted /\ ~clLoading /\ session = clSession

\* The search box: setSearchText, then the filter effect (41-43; 821-823).
SetSearchText(text) ==
    /\ ClientInteractive
    /\ text # searchText
    /\ nClientOps < MaxClientOps
    /\ nClientOps' = nClientOps + 1
    /\ searchText' = text
    /\ filteredEntries' = FilterEntries(clEntries, text, caseTypeFilter)
    /\ UNCHANGED <<clMounted, clVariant, clSession, clEntries, clLoading,
                   caseTypeFilter, clFetches, authVars, uiVars, nonClientVars>>

\* The case-type picker: setCaseTypeFilter, then the filter effect.
SetCaseTypeFilter(caseType) ==
    /\ ClientInteractive
    /\ caseType # caseTypeFilter
    /\ nClientOps < MaxClientOps
    /\ nClientOps' = nClientOps + 1
    /\ caseTypeFilter' = caseType
    /\ filteredEntries' = FilterEntries(clEntries, searchText, caseType)
    /\ UNCHANGED <<clMounted, clVariant, clSession, clEntries, clLoading,
                   searchText, clFetches, authVars, uiVars, nonClientVars>>

\* A button of the view navigates away (part_000 283; AuthContext.tsx 988).
ClientLeave ==
    /\ ClientInteractive
    /\ nClientOps < MaxClientOps
    /\ nClientOps' = nClientOps + 1
    /\ clMounted' = FALSE
    /\ navLog' = Append(navLog, "/add")
    /\ UNCHANGED <<clVariant, clSession, clEntries, filteredEntries, clLoading,
                   searchText, caseTypeFilter, clFetches, toasts, authVars,
                   nonClientVars>>

ClientNext ==
    \/ AuthInitResolve
    \/ \E s \in ListSessions : AuthStateChange(s)
    \/ ClientOpen
    \/ ClientSessionEffect
    \/ \E ok \in BOOLEAN : ClientFetchResolve(ok)
    \/ \E text \in SearchTexts : SetSearchText(text)
    \/ \E caseType \in CaseTypeChoices : SetCaseTypeFilter(caseType)
    \/ ClientLeave

-----------------------------------------------------------------------------
(* Specifications: one per view, each on the whole state.                  *)

SpecAuthInit ==
    AuthInit /\ UiInit /\ StoreInit /\ EntryInit /\ SettingsIdle /\ ListIdle /\ ClientIdle

SpecAuth == SpecAuthInit /\ [][AuthNext]_vars

\* The view opens on a table of server-created rows.
SpecEntryInit ==
    /\ AuthIdle /\ UiInit /\ EntryInit /\ SettingsIdle /\ ListIdle /\ ClientIdle
    /\ table \in {SampleTable(ids) : ids \in SUBSET (1..MaxRowId)}
    /\ nextId = MaxRowId + 1
    /\ lastReq = NoReq

SpecEntry == SpecEntryInit /\ [][EntryNext]_vars

\* The Settings view, in a browser of any of the time zones, on a table of
\* server-created rows.
SpecSettingsInit ==
    /\ AuthIdle /\ UiInit /\ EntryInit /\ SettingsInit /\ ListIdle /\ ClientIdle
    /\ table \in {{}, SampleTable(1..MaxRowId)}
    /\ nextId = MaxRowId + 1
    /\ lastReq = NoReq

SpecSettings == SpecSettingsInit /\ [][SettingsNext]_vars

SpecImport == SpecSettingsInit /\ [][ImportNext]_vars

\* The list opens while the provider still resolves the persisted session, on a
\* table of server-created rows.
SpecListInit ==
    /\ AuthInit /\ UiInit /\ EntryInit /\ SettingsIdle /\ ListInit /\ ClientIdle
    /\ sdkSession \in {NullSession, [user |-> "u1", token |-> 1]}
    /\ table \in {ListTable(n) : n \in ListSizes}
    /\ nextId = 46
    /\ lastReq = NoReq

SpecList == SpecListInit /\ [][ListNext]_vars

\* The list opens on the full table with a persisted session.
SpecSessionListInit ==
    /\ AuthInit /\ UiInit /\ EntryInit /\ SettingsIdle /\ ListInit /\ ClientIdle
    /\ sdkSession = [user |-> "u1", token |-> 1]
    /\ table = ListTable(45)
    /\ nextId = 46
    /\ lastReq = NoReq

SpecSessionList == SpecSessionListInit /\ [][SessionListNext]_vars

\* The event the import waits for arrives: the reader's load or error event
\* after readAsArrayBuffer (91), the store's answer after the insert (78).
ImportEventArrives ==
    /\ pcImport \in {"reading", "inserting"}
    /\ pcImport' \in {"idle", "inserting", "stuck"}

\* The import with the browser and the store answering in the end.
SpecImportLive == SpecImport /\ WF_pcImport(ImportEventArrives)

SpecDebounce == SpecSessionListInit /\ [][DebounceNext]_vars

\* The client-side list, of either variant, is opened while the provider still
\* resolves the persisted session or later.
SpecClientInit ==
    /\ AuthInit /\ UiInit /\ EntryInit /\ SettingsIdle /\ ListIdle /\ ClientInit
    /\ sdkSession \in {NullSession, [user |-> "u1", token |-> 1]}
    /\ table = ClientTable
    /\ nextId = 6
    /\ lastReq = NoReq

SpecClient == SpecClientInit /\ [][ClientNext]_vars

-----------------------------------------------------------------------------
(* Properties                                                              *)

\* C1: every signOut call ends (the step that completes it) with user = null and
\* session = null in the provider and with a navigation to '/login' issued,
\* whatever the server sign-out answered.
C1_SignOutEndsSignedOut ==
    [][(pcOut # "done" /\ pcOut' = "done") =>
          /\ user' = NullUser
          /\ session' = NullSession
          /\ navLog' = Append(navLog, "/login")]_vars

\* C2: a returned signIn call navigated to '/' exactly once and returned
\* {error: null} when the backend accepted the credentials; when the backend
\* rejected them (every invalid pair is rejected) it returned the error and
\* navigated nowhere.
C2_SignInNavigatesOnceOnSuccess ==
    pcIn = "returned" =>
        /\ inResult.null =>
              /\ inNavs = <<"/">>
              /\ ValidCredentials(inCred[1], inCred[2])
        /\ ~inResult.null => inNavs = <<>>
        /\ ~ValidCredentials(inCred[1], inCred[2]) =>
              /\ inResult = Err(MsgInvalidLogin)
              /\ inNavs = <<>>

C2_Witness ==
    /\ pcIn = "returned"
    /\ inResult.null
    /\ inNavs = <<"/">>
    /\ session # NullSession
    /\ pcOut = "idle"


\* the (id, created_at) pairs of the stored rows
IdStamps(t) == {<<r[K_id], r[K_created_at]>> : r \in t}

\* C3: an answered update never changes a stored entry's id or created_at: the
\* rows keep their (id, created_at) pairs and no row appears or disappears, even
\* when the form data holds an id and created_at other than the target's.
C3_UpdateKeepsIdAndCreatedAt ==
    [][(lastReq' # lastReq /\ lastReq'.op = "update") =>
          /\ IdStamps(table') = IdStamps(table)
          /\ Cardinality(table') = Cardinality(table)]_vars

C3_Witness ==
    /\ lastReq.op = "update" /\ lastReq.ok
    /\ K_id \in DOMAIN lastReq.form
    /\ lastReq.form[K_id] # Num(lastReq.id)
    /\ \E r \in table :
          /\ r[K_id] = Num(lastReq.id)
          /\ r[K_created_at] # lastReq.form[K_created_at]
          /\ r[K_first_name] = lastReq.form[K_first_name]
          /\ r # SampleRow(lastReq.id)

\* C4: an answered, successful delete for an id removes exactly the row with
\* that id; every other row stays, unchanged.
C4_DeleteRemovesExactlyThatEntry ==
    [][(lastReq' # lastReq /\ lastReq'.op = "delete" /\ lastReq'.ok) =>
          /\ \A r \in table : r[K_id] # Num(lastReq'.id) => r \in table'
          /\ \A r \in table' : r \in table /\ r[K_id] # Num(lastReq'.id)]_vars

C4_Witness ==
    /\ lastReq.op = "delete" /\ lastReq.ok
    /\ table # {}
    /\ \E ids \in SUBSET (1..MaxRowId) :
          /\ lastReq.id \in ids
          /\ table = SampleTable(ids \ {lastReq.id})

\* C5: a confirmed delete-all that succeeds leaves the table empty, whatever ids
\* its rows have.
C5_DeleteAllRemovesEveryEntry ==
    [][(lastReq' # lastReq /\ lastReq'.op = "deleteAll" /\ lastReq'.ok) =>
          table' = {}]_vars

\* C6: the successful import of the file whose only row is {first_name: 'A',
\* last_name: 'B', case_type: 'Theft', date: 45292, blotter_entry: 'x'} adds
\* exactly one row to the table, and the row's date is the string '2024-01-01'.
C6_SerialDateImportsAsIsoDate ==
    [][(/\ lastReq' # lastReq /\ lastReq'.op = "insert" /\ lastReq'.ok
        /\ impFile = ParsedFile(<<ClaimRow>>)) =>
          \E r \in table' :
              /\ r \notin table
              /\ table' = table \cup {r}
              /\ r[K_date] = Str(T_2024_01_01)]_vars

\* the required columns no key of the file's first row normalizes to
LackedColumns(file) ==
    {col \in EntryFields :
        \A i \in 1..Len(file.rows[1]) : NormalizeKey(file.rows[1][i].key) # col}

\* C7: when the reader hands over a parsed file whose first row lacks a required
\* column, the import ends there: no insert is awaited or answered, the table
\* is as it was, nothing navigates, and one error notification is added whose
\* detail names every lacked column.
C7_MissingColumnAbortsImport ==
    [][(/\ pcImport = "reading" /\ pcImport' \notin {"reading", "stuck"}
        /\ impFile.parses /\ impFile.rows # <<>>
        /\ LackedColumns(impFile) # {}) =>
          /\ pcImport' = "idle" /\ importing' = FALSE
          /\ table' = table /\ lastReq' = lastReq
          /\ navLog' = navLog
          /\ Len(toasts') = Len(toasts) + 1
          /\ toasts'[Len(toasts')].kind = "error"
          /\ \A col \in LackedColumns(impFile) :
                Includes(toasts'[Len(toasts')].detail, col)]_vars

C7_Witness ==
    /\ impFile = ParsedFile(<<NoDateNoNameRow, ClaimRow>>)
    /\ pcImport = "idle" /\ ~importing
    /\ toasts = <<MissingColumnsToast(<<K_first_name, K_date>>)>>
    /\ lastReq = NoReq
    /\ navLog = <<>>
    /\ stMounted

\* the rows whose names contain the terms as substrings, letters compared
\* without case
NameContains(value, term) ==
    value.t = "string" /\ Includes(ToLowerCase(value.s), ToLowerCase(term))
SubstringMatches(t, first, last) ==
    {r \in t : /\ NameContains(r[K_first_name], first)
               /\ NameContains(r[K_last_name], last)}

\* C8: a search query that is answered counts and returns exactly the entries
\* whose first_name contains the first-name term and whose last_name contains
\* the last-name term as case-insensitive substrings (an empty term restricts
\* nothing; case_type and blotter_entry are not looked at): the count is the
\* number of such entries, every returned entry is one of them, and a first
\* page that holds them all returns them all.
C8_SearchReturnsSubstringMatches ==
    [][(/\ Len(fetches') < Len(fetches) /\ lastFetch'.ok /\ lsMounted
        /\ lastFetch'.req.kind = "search") =>
          /\ totalCount' =
                Cardinality(SubstringMatches(table, lastFetch'.req.first,
                                             lastFetch'.req.last))
          /\ \A k \in 1..Len(entries') :
                entries'[k] \in SubstringMatches(table, lastFetch'.req.first,
                                                 lastFetch'.req.last)
          /\ (lastFetch'.req.page = 1 /\ totalCount' <= 20) =>
                {entries'[k] : k \in 1..Len(entries')} =
                    SubstringMatches(table, lastFetch'.req.first,
                                     lastFetch'.req.last)]_vars

\* C9: an answered list query for page p sets totalPages to the least number of
\* pages of 20 that hold the matching count, and returns the rows at positions
\* (p-1)*20 .. p*20-1 (as far as they exist) of the matching rows by descending
\* date: the k-th returned row is the matching row that (p-1)*20 + k - 1
\* matching rows are dated after. With 45 matching rows there are 3 pages and
\* page 3 returns 5 rows.
C9_PagesOfTwenty ==
    [][(Len(fetches') < Len(fetches) /\ lastFetch'.ok /\ lsMounted) =>
          /\ totalPages' * 20 >= totalCount'
          /\ totalPages' >= 0
          /\ totalPages' > 0 => (totalPages' - 1) * 20 < totalCount'
          /\ Len(entries') =
                Cardinality({i \in 0..(totalCount' - 1) :
                                /\ i >= (lastFetch'.req.page - 1) * 20
                                /\ i <= lastFetch'.req.page * 20 - 1})
          /\ \A keyed \in {DateKeyed(FetchMatches(table, lastFetch'.req))} :
                /\ totalCount' = Cardinality(keyed)
                /\ \A k \in 1..Len(entries') :
                      \E p \in keyed :
                          /\ p[3] = entries'[k]
                          /\ Cardinality({q \in keyed : q[1] > p[1]})
                                = (lastFetch'.req.page - 1) * 20 + k - 1
          /\ (totalCount' = 45 /\ lastFetch'.req.page = 3) =>
                totalPages' = 3 /\ Len(entries') = 5]_vars

C9_Witness ==
    /\ lsMounted /\ ~lsLoading
    /\ lastFetch = [req |-> Fetch("search", <<>>, <<>>, 3), ok |-> TRUE]
    /\ totalCount = 45 /\ totalPages = 3 /\ currentPage = 3
    /\ Len(entries) = 5
    /\ entries[1] = ListRow(5) /\ entries[5] = ListRow(1)

\* C10: every step in which a debounced search term changes, the first name's
\* or the last name's, ends with currentPage = 1.
C10_TermChangeResetsPage ==
    [][(\/ debouncedFirstName' # debouncedFirstName
        \/ debouncedLastName' # debouncedLastName) => currentPage' = 1]_vars

C10_Witness ==
    /\ lsMounted
    /\ debouncedFirstName = <<>> /\ debouncedLastName = T_B
    /\ currentPage = 1
    /\ totalPages = 3
    /\ \E i \in 1..Len(fetches) : fetches[i] = Fetch("search", <<>>, T_B, 3)

\* C11: while the view is on screen and a session is present, every step in
\* which an active (debounced) search term, currentPage or the session the
\* view's effects see changes sends a list query, and the last query it sends
\* carries the terms and the page as they are after the step.
C11_ChangesTriggerFetch ==
    [][(/\ lsMounted' /\ session' # NullSession
        /\ \/ debouncedFirstName' # debouncedFirstName
           \/ debouncedLastName' # debouncedLastName
           \/ currentPage' # currentPage
           \/ lsSession' # lsSession) =>
          /\ Len(fetches') > Len(fetches)
          /\ fetches'[Len(fetches')] =
                Fetch("search", debouncedFirstName', debouncedLastName',
                      currentPage')]_vars

C11_Witness ==
    /\ lsMounted
    /\ lsSession = [user |-> "u1", token |-> 2]
    /\ debouncedLastName = T_B /\ currentPage = 2
    /\ Len(fetches) >= 2
    /\ fetches[Len(fetches)] = Fetch("search", <<>>, T_B, 2)
    /\ fetches[Len(fetches) - 1] = Fetch("initial", <<>>, <<>>, 2)

\* C12: no step of a list view, server-side or client-side, sends a query to
\* the store while the provider's session is null (absent, or not yet
\* resolved).
C12_NoStoreCallWithoutSession ==
    [][(clFetches' > clFetches \/ Len(fetches') > Len(fetches)) =>
          session # NullSession]_vars

\* C13: a signOut call whose server sign-out returned an error ends with
\* exactly one notification: the success notification when the error's message
\* contains 'session' and 'missing' in any case, the error's message otherwise.
C13_SignOutNotification ==
    [][(pcOut # "done" /\ pcOut' = "done" /\ ~outErr.null) =>
          /\ Len(toasts') = Len(toasts) + 1
          /\ toasts'[Len(toasts')] =
                IF /\ Includes(ToLowerCase(outErr.message), <<"s","e","s","s","i","o","n">>)
                   /\ Includes(ToLowerCase(outErr.message), <<"m","i","s","s","i","n","g">>)
                THEN Toast("success", "Logged out successfully", <<>>)
                ELSE Toast("error", "", outErr.message)]_vars

\* C14: every step in which an operation fails adds one error notification:
\* a store request answered with an error (entry load, insert, update, delete,
\* delete-all), a list query answered with an error, a file the reader cannot
\* read or the parser cannot parse, a rejected sign-in, a server sign-out that
\* throws.
C14_FailuresAreNotified ==
    [][(\/ lastReq' # lastReq /\ ~lastReq'.ok
        \/ Len(fetches') < Len(fetches) /\ ~lastFetch'.ok
        \/ pcImport = "reading" /\ pcImport' = "stuck"
        \/ pcImport = "reading" /\ pcImport' = "idle" /\ ~impFile.parses
        \/ pcIn = "await" /\ pcIn' = "returned" /\ ~inResult'.null
        \/ pcOut = "server" /\ pcOut' = "done") =>
          /\ Len(toasts') = Len(toasts) + 1
          /\ toasts'[Len(toasts')].kind = "error"]_vars

\* C15: the answer to an import's insert is the answer to its only request:
\* never more inserts are answered than files were selected. When it succeeds
\* the request held one row per row of the file, each with the file row's
\* keys trimmed and lower-cased, the table grew by that many rows, the success
\* notification gives that number and the view navigates to '/'. When it fails
\* there is no navigation and no success notification, only an error
\* notification, and the table is as it was.
C15_ImportInsertsAllRowsOnce ==
    [][(lastReq' # lastReq /\ lastReq'.op = "insert") =>
          /\ lastReq'.seq <= nImports'
          /\ IF lastReq'.ok
             THEN /\ Len(lastReq'.rows) = Len(impFile.rows)
                  /\ \A i \in 1..Len(impFile.rows) :
                        DOMAIN lastReq'.rows[i] =
                           {NormalizeKey(impFile.rows[i][j].key) :
                               j \in 1..Len(impFile.rows[i])}
                  /\ Cardinality(table') = Cardinality(table) + Len(impFile.rows)
                  /\ toasts' = Append(toasts,
                        Toast("success", "Successfully imported ",
                              <<DigitChars[Len(impFile.rows) + 1]>> \o
                              <<" ","e","n","t","r","i","e","s">>))
                  /\ navLog' = Append(navLog, "/")
             ELSE /\ navLog' = navLog
                  /\ table' = table
                  /\ Len(toasts') = Len(toasts) + 1
                  /\ toasts'[Len(toasts')].kind = "error"]_vars

C15_Witness ==
    /\ impFile = ParsedFile(<<IdZeroRow, NumericCaseRow, ClaimRow>>)
    /\ lastReq.op = "insert" /\ lastReq.ok /\ Len(lastReq.rows) = 3
    /\ Cardinality(table) = 3
    /\ toasts = <<Toast("success", "Successfully imported ",
                        <<"3"," ","e","n","t","r","i","e","s">>)>>
    /\ navLog = <<"/">>
    /\ ~stMounted /\ ~importing

\* C16: in the rows an import sends to the store, a numeric serial n in the
\* date column has become the calendar date that lies n - 2 days after
\* 1900-01-01, and the serial 1 has become '1900-01-01'.
C16_SerialDateConversion ==
    [][(lastReq' # lastReq /\ lastReq'.op = "insert") =>
          \A i \in 1..Len(impFile.rows) :
             \A j \in 1..Len(impFile.rows[i]) :
                \A c \in {impFile.rows[i][j]} :
                   (c.key = K_date /\ c.value.t = "number") =>
                      /\ lastReq'.rows[i][K_date] =
                            Str(IsoDate((DaysFromCivil(1900, 1, 1) + c.value.n - 2)
                                        * MinutesPerDay))
                      /\ c.value.n = 1 =>
                            lastReq'.rows[i][K_date] =
                               Str(<<"1","9","0","0","-","0","1","-","0","1">>)]_vars

\* C17: in every reachable state of the server-side list, where currentPage is
\* changed only by the enabled Previous and Next buttons and by the reset on a
\* term change, 1 <= currentPage <= max(1, totalPages).
C17_PageWithinBounds ==
    /\ 1 <= currentPage
    /\ currentPage <= (IF totalPages > 1 THEN totalPages ELSE 1)

\* C19: list queries are neither cancelled nor deduplicated, and the last
\* successful answer wins. A step that changes a term, the page or the session
\* leaves every query in flight in flight; every successful answer that
\* reaches the view on screen, whichever of the queries in flight it answers,
\* sets entries, totalCount and totalPages to the result of that query; no
\* other step changes them.
C19_LastResolvedFetchWins ==
    [][/\ (\/ debouncedFirstName' # debouncedFirstName
           \/ debouncedLastName' # debouncedLastName
           \/ currentPage' # currentPage
           \/ lsSession' # lsSession) =>
             /\ Len(fetches') >= Len(fetches)
             /\ SubSeq(fetches', 1, Len(fetches)) = fetches
       /\ IF Len(fetches') < Len(fetches) /\ lastFetch'.ok /\ lsMounted
          THEN \E matched \in {FetchMatches(table, lastFetch'.req)} :
                  /\ totalCount' = Cardinality(matched)
                  /\ totalPages' = TotalPages(Cardinality(matched))
                  /\ entries' = RangeRows(DateRanked(DateKeyed(matched)),
                                          RangeFrom(lastFetch'.req.page),
                                          RangeTo(lastFetch'.req.page))
          ELSE UNCHANGED <<entries, totalCount, totalPages>>]_vars

C19_Witness ==
    /\ lsMounted /\ ~lsLoading
    /\ fetches = <<>>
    /\ lastFetch = [req |-> Fetch("search", <<>>, T_B, 2), ok |-> TRUE]
    /\ debouncedLastName = T_B /\ currentPage = 1
    /\ totalCount = 21 /\ totalPages = 2
    /\ entries = <<ListRow(1)>>

\* C20: whenever the list is on screen, no query is in flight and the last
\* answer was a success, entries, totalCount and totalPages are the result of
\* the search query for the debounced terms and currentPage as they are now.
C20_SettledListShowsCurrentQuery ==
    (lsMounted /\ fetches = <<>> /\ lastFetch.ok) =>
        \E matched \in {FetchMatches(table,
                            Fetch("search", debouncedFirstName, debouncedLastName,
                                  currentPage))} :
            /\ totalCount = Cardinality(matched)
            /\ totalPages = TotalPages(Cardinality(matched))
            /\ entries = RangeRows(DateRanked(DateKeyed(matched)),
                                   RangeFrom(currentPage), RangeTo(currentPage))

\* the entry is shown under a search text and a case-type filter
ShownEntry(e, text, caseType) ==
    /\ \/ NameContains(e[K_first_name], text)
       \/ NameContains(e[K_last_name], text)
       \/ NameContains(e[K_case_type], text)
       \/ NameContains(e[K_blotter_entry], text)
    /\ caseType # T_all => e[K_case_type] = Str(caseType)

C21_SignOutStepOrder ==
    [][(pcOut # "done" /\ pcOut' = "done") =>
          /\ outSteps' = <<"clear", "server", "local", "navigate">>
          /\ navLog' = Append(navLog, "/login")]_vars

\* C30: in every state of the provider user is the user of session (null when
\* session is null), however the initial session fetch, the auth events,
\* sign-in and signOut interleave; and no step taken once the provider has
\* unmounted changes user or session.
C30_UserFollowsSession ==
    [][/\ user' = (IF session' = NullSession THEN NullUser ELSE session'.user)
       /\ ~mounted => (user' = user /\ session' = session)]_vars

C30_Witness ==
    /\ ~mounted /\ ~initPending
    /\ session # NullSession /\ user = session.user
    /\ sdkSession # session /\ sdkSession # NullSession
    /\ sdkSession.user # user

\* C22: a keystroke changes the raw text of its input at once and leaves both
\* active terms and the queries alone; an active term changes only when its
\* delay runs out with no keystroke since, and becomes the text the input
\* holds then, so that a burst promotes its final text only; every search
\* query sent carries the active terms, never a text that was not promoted.
C22_DebouncedSearch ==
    [][/\ (firstNameSearch' # firstNameSearch \/ lastNameSearch' # lastNameSearch)
          => /\ debouncedFirstName' = debouncedFirstName
             /\ debouncedLastName' = debouncedLastName
             /\ fetches' = fetches
             /\ firstNameSearch' # firstNameSearch => timerFirstName'
             /\ lastNameSearch' # lastNameSearch => timerLastName'
       /\ debouncedFirstName' # debouncedFirstName
          => timerFirstName /\ firstNameSearch' = firstNameSearch
       /\ debouncedLastName' # debouncedLastName
          => timerLastName /\ lastNameSearch' = lastNameSearch
       /\ (lsMounted' /\ timerFirstName /\ ~timerFirstName')
          => debouncedFirstName' = firstNameSearch
       /\ (lsMounted' /\ timerLastName /\ ~timerLastName')
          => debouncedLastName' = lastNameSearch
       /\ \A i \in (Len(fetches) + 1)..Len(fetches') :
             fetches'[i].kind = "search"
             => /\ fetches'[i].first = debouncedFirstName'
                /\ fetches'[i].last = debouncedLastName']_vars

\* a burst of two keystrokes in the last-name input, B then Bo, and then the
\* delay: one query, for Bo
C22_Witness ==
    /\ nListOps = 2
    /\ lastNameSearch = <<"B","o">> /\ debouncedLastName = <<"B","o">>
    /\ firstNameSearch = <<>> /\ ~timerLastName
    /\ lastFetch.req.last = <<>>
    /\ fetches = <<Fetch("search", <<>>, <<"B","o">>, 1)>>

\* the normalized keys of a row of the file
FileRowKeys(row) == {NormalizeKey(row[j].key) : j \in 1..Len(row)}

\* C23: the validation of the required columns looks at the first row only:
\* when the first row of a parsed file has the five required keys, onload goes
\* on to the insert without a notification, whatever keys the later rows
\* have, and the insert request holds every row of the file, each with its
\* own keys, so that a later row lacking a required key is sent lacking it.
C23_OnlyFirstRowValidated ==
    [][/\ (/\ pcImport = "reading" /\ pcImport' \in {"idle", "inserting"}
           /\ impFile.parses /\ impFile.rows # <<>>
           /\ \A col \in EntryFields : col \in FileRowKeys(impFile.rows[1]))
          => /\ pcImport' = "inserting" /\ importing'
             /\ toasts' = toasts
             /\ Len(impRows') = Len(impFile.rows)
       /\ (lastReq' # lastReq /\ lastReq'.op = "insert")
          => /\ lastReq'.rows = impRows
             /\ Len(lastReq'.rows) = Len(impFile.rows)
             /\ \A i \in 1..Len(impFile.rows) :
                   DOMAIN lastReq'.rows[i] = FileRowKeys(impFile.rows[i])]_vars

C23_Witness ==
    /\ impFile = ParsedFile(<<ClaimRow, NoCaseTypeRow>>)
    /\ lastReq.op = "insert" /\ Len(lastReq.rows) = 2
    /\ K_case_type \in DOMAIN lastReq.rows[1]
    /\ K_case_type \notin DOMAIN lastReq.rows[2]
    /\ pcImport = "idle"

\* C27: a file that parses to no data row makes onload end with the error
\* notification of its catch: no insert request is issued, nothing navigates,
\* no success is reported and importing is false again.
C27_EmptyFileIsAnError ==
    [][(/\ pcImport = "reading" /\ pcImport' \in {"idle", "inserting"}
        /\ impFile.parses /\ impFile.rows = <<>>)
          => /\ pcImport' = "idle" /\ ~importing'
             /\ lastReq' = lastReq /\ table' = table
             /\ navLog' = navLog
             /\ Len(toasts') = Len(toasts) + 1
             /\ toasts'[Len(toasts')].kind = "error"
             /\ toasts'[Len(toasts')].text = "Error processing file: "]_vars

C27_Witness ==
    /\ impFile = ParsedFile(<<>>) /\ pcImport = "idle" /\ ~importing
    /\ toasts = <<Toast("error", "Error processing file: ", MsgTypeError)>>
    /\ lastReq = NoReq /\ navLog = <<>> /\ table = {}

\* C24: every header key of every row of the file is sent to the store trimmed
\* of the spaces around it and in lower case, and the validation sees the keys
\* in that form: a file whose first row spells the five required names in
\* another case or with spaces around them goes on to the insert.
C24_HeaderKeysNormalized ==
    [][/\ (/\ pcImport = "reading" /\ pcImport' \in {"idle", "inserting"}
           /\ impFile.parses /\ impFile.rows # <<>>
           /\ \A col \in EntryFields :
                 \E j \in 1..Len(impFile.rows[1]) :
                    ToLowerCase(Trim(impFile.rows[1][j].key)) = col)
          => /\ pcImport' = "inserting"
             /\ \A i \in 1..Len(impFile.rows) :
                   DOMAIN impRows'[i] =
                      {ToLowerCase(Trim(impFile.rows[i][j].key)) :
                          j \in 1..Len(impFile.rows[i])}
       /\ (lastReq' # lastReq /\ lastReq'.op = "insert")
          => \A i \in 1..Len(impFile.rows) :
                \A j \in 1..Len(impFile.rows[i]) :
                   /\ ToLowerCase(Trim(impFile.rows[i][j].key))
                         \in DOMAIN lastReq'.rows[i]
                   /\ impFile.rows[i][j].key \in DOMAIN lastReq'.rows[i]
                      => impFile.rows[i][j].key =
                            ToLowerCase(Trim(impFile.rows[i][j].key))]_vars

C24_Witness ==
    /\ impFile = ParsedFile(<<SpelledRow>>)
    /\ lastReq.op = "insert" /\ lastReq.ok
    /\ DOMAIN lastReq.rows[1] = EntryFields
    /\ lastReq.rows[1][K_first_name] = Str(T_B)
    /\ H_First_Name \notin DOMAIN lastReq.rows[1]
    /\ Cardinality(table) = 1 /\ navLog = <<"/">>

\* the cell of a row of the file that is stored under a normalized key: the
\* last one whose header normalizes to it
FileCell(row, key) ==
    row[CHOOSE j \in 1..Len(row) :
           /\ ToLowerCase(Trim(row[j].key)) = key
           /\ \A l \in (j + 1)..Len(row) : ToLowerCase(Trim(row[l].key)) # key]

\* C25: the rows sent to the store hold every cell's value as the file gave
\* it, except a number under the key 'date', which is replaced by a text: a
\* date cell that is not a number and every cell of another column, number or
\* not, are unchanged.
C25_OnlyNumericDatesChange ==
    [][(lastReq' # lastReq /\ lastReq'.op = "insert") =>
          \A i \in 1..Len(impFile.rows) :
             \A key \in DOMAIN lastReq'.rows[i] :
                IF key = K_date /\ FileCell(impFile.rows[i], key).value.t = "number"
                THEN lastReq'.rows[i][key].t = "string"
                ELSE lastReq'.rows[i][key] = FileCell(impFile.rows[i], key).value]_vars

C25_Witness ==
    /\ impFile = ParsedFile(<<NumericCaseRow, SpelledRow>>)
    /\ lastReq.op = "insert" /\ Len(lastReq.rows) = 2
    /\ lastReq.rows[1][K_case_type] = Num(45292)
    /\ lastReq.rows[1][K_id] = Num(1)
    /\ lastReq.rows[1][K_date] = Str(T_2024_01_01)
    /\ lastReq.rows[2][K_date] = Str(T_2023_12_31)

\* C26: whenever importing is true, after a file was selected, it is false
\* again later, whether the read, the parse, the validation or the insert
\* succeeds or fails.
C26_ImportingReturnsToFalse == importing ~> ~importing

C29_FailedFetchChangesNothing ==
    [][/\ (Len(fetches') < Len(fetches) /\ ~lastFetch'.ok)
          => /\ entries' = entries
             /\ totalCount' = totalCount
             /\ totalPages' = totalPages
             /\ currentPage' = currentPage
             /\ Len(toasts') = Len(toasts) + 1
             /\ toasts'[Len(toasts')].kind = "error"
             /\ toasts'[Len(toasts')].text = "Error loading entries: "
             /\ lsMounted => ~lsLoading'
             /\ Len(fetches') = Len(fetches) - 1
             /\ \A i \in 1..Len(fetches') : \E j \in 1..Len(fetches) :
                   fetches'[i] = fetches[j]
       /\ Len(fetches') > Len(fetches)
          => \/ debouncedFirstName' # debouncedFirstName
             \/ debouncedLastName' # debouncedLastName
             \/ currentPage' # currentPage
             \/ lsSession' # lsSession]_vars

\* the query for page 2 failed: the view still shows the rows of page 1
C29_Witness ==
    /\ lsMounted /\ ~lsLoading
    /\ lastFetch = [req |-> Fetch("search", <<>>, <<>>, 2), ok |-> FALSE]
    /\ currentPage = 2 /\ totalCount = 45 /\ totalPages = 3
    /\ Len(entries) = 20 /\ entries[1] = ListRow(45)
    /\ fetches = <<>>
    /\ toasts = <<Toast("error", "Error loading entries: ", MsgStore)>>

=============================================================================
